---- MODULE Spec2Model ----
(***************************************************************************)
(* Model of the recording session controller of the OBS companion tracker  *)
(* (src/obs_tracker_V2.1.py, class OBSCompanionTracker and                 *)
(* WorkingGamepadTracker).                                                 *)
(*                                                                         *)
(* Every method is cut into steps at its accesses to the shared attributes *)
(* of the tracker object; the program counter of a thread is named after   *)
(* the source line of the statement it is about to execute.  The tracker   *)
(* takes no lock anywhere, so the steps of different threads interleave    *)
(* freely.  One call of file.write / file.flush is one step: each is one   *)
(* call into the interpreter made with the interpreter lock held.          *)
(*                                                                         *)
(* The monitor thread (_obs_monitor_loop) and the Tk main thread in        *)
(* on_closing / disconnect_obs have a line of their own (mon.at, ui.at)    *)
(* besides the line they are at inside start_recording_sync and            *)
(* stop_recording.  The operations that can raise (open, file.write, the   *)
(* start of a listener) raise when the environment has prepared the        *)
(* failure (fault).                                                        *)
(***************************************************************************)
EXTENDS Integers, Sequences, FiniteSets, TLC

\* ------------------------------------------------------------------ bounds
\* Number of log files the model lets start_recording_sync open.
MaxFiles == 2
\* Number of input callbacks delivered in a run of concurrent threads.
MaxCalls == 3
\* Number of on_mouse_move calls delivered in a run of sequential calls.
MaxMoves == 5
\* Number of polls of the external recorder the monitor loop makes.
MaxPolls == 5
\* Number of polls made in a run in which the window is closed or the
\* link is followed under fair scheduling.
MaxClosePolls == 3
\* Number of key presses delivered while the monitor loop is followed
\* under fair scheduling.
MaxEdgeKeys == 1
\* Connect is pressed until start_obs_monitoring has made this many
\* Thread objects.
MaxConnects == 2

\* ----------------------------------------------------------------- threads
\* The Tk main thread (manual_start / manual_stop) and the monitor thread
\* (_obs_monitor_loop) call start_recording_sync and stop_recording.
Controllers == {"gui", "monitor"}
\* The two pynput listener threads and the gamepad poll thread.
Producers == {"mouse", "keyboard", "gamepad"}
Threads == Controllers \cup Producers

\* None for object references (log_file, listeners) and for start_time.
None == 0
\* None for last_mouse_pos.
NoPos == <<>>

VARIABLES
    pc,                \* thread -> the line it is about to execute, or "idle"
    loc,               \* thread -> its local variables
    recording,         \* self.recording
    start_time,        \* self.start_time (None or a perf_counter reading)
    log_file,          \* self.log_file (None or the index of a file object)
    current_log_path,  \* self.current_log_path (None or a path)
    last_mouse_pos,    \* self.last_mouse_pos
    event_count, mouse_count, keyboard_count, gamepad_count,
    mouse_listener,    \* self.mouse_listener (None or a listener)
    keyboard_listener, \* self.keyboard_listener
    running,           \* the listeners that are started and not stopped
    tracking,          \* gamepad_tracker.tracking
    joystick,          \* gamepad_tracker.joystick is not None
    files,             \* the file objects opened so far
    clock,             \* the next reading of time.perf_counter()
    wall,              \* datetime.now() at its last reading, in seconds
    wseq,              \* number of completed file.write calls
    observed,          \* per file, the positions on_mouse_move observed
                       \* and the axis readings gamepad_loop received
    calls,             \* number of input callbacks delivered
    fault,             \* the failure the environment has prepared, or "none"
    failed,            \* the failures that have happened
    misses,            \* failed writes since the last write that succeeded
    obs_client,        \* self.obs_client (None or the client object)
    obs_connected,     \* self.obs_connected
    should_monitor,    \* self.should_monitor
    connect_ret,       \* what connect_obs returned last, or "none"
    mon,               \* the monitor thread: its line and its locals
    obs_level,         \* output_active of the external recorder
    polled,            \* the outcomes of the polls made so far
    fired,             \* the calls the monitor loop has made so far
    ui,                \* the Tk main thread: the handler line it is at
    v0,                \* the subprocess-driven recorder of V0 and its GUI
    conn               \* the threads that run connect_obs and the monitor
                       \* threads they have made

counters == <<event_count, mouse_count, keyboard_count, gamepad_count>>
sources == <<mouse_listener, keyboard_listener, running, tracking, joystick>>
session == <<recording, start_time, log_file, current_log_path, last_mouse_pos>>
history == <<wseq, observed>>
faults == <<fault, failed, misses>>
link == <<obs_client, obs_connected, should_monitor, connect_ret>>
monitoring == <<mon, obs_level, polled, fired>>
env == <<faults, link, monitoring, ui, v0, conn>>
vars == <<pc, loc, session, counters, sources, files, clock, wall, history,
          calls, env>>

\* --------------------------------------------------------------- helpers
\* Python truthiness of an attribute holding None or a number / an object.
Truthy(x) == x # None

\* str.startswith on the event types the tracker logs.
EventTypes == {"SessionStart", "SessionEnd", "MouseDelta", "MouseClick",
               "KeyDown", "KeyUp", "gamepad_button", "gamepad_stick",
               "gamepad_trigger"}
PrefixMouse(ev) == ev \in {"MouseDelta", "MouseClick"}
PrefixKey(ev) == ev \in {"KeyDown", "KeyUp"}
PrefixGamepad(ev) ==
    ev \in {"gamepad_button", "gamepad_stick", "gamepad_trigger"}

\* The counter log_event increments besides event_count (lines 348-353).
Category(ev) ==
    IF PrefixMouse(ev) THEN "mouse"
    ELSE IF PrefixKey(ev) THEN "keyboard"
    ELSE IF PrefixGamepad(ev) THEN "gamepad"
    ELSE "none"

NoLocals == [retpc |-> "idle", ev |-> "none", det |-> <<>>, ts |-> 0,
             base |-> 0, tmp |-> 0, arg |-> <<>>, my |-> 0, ret |-> "none"]

\* A file object just opened for writing: the lines on the disk, the text
\* not flushed yet, whether it is closed, how often close() was called on
\* it, whether its session was reported started, its path, whether a
\* later open of the same path has truncated it, and the start time the
\* call that opened it has taken for its session.
NewFile == [lines |-> <<>>, pending |-> <<>>, closed |-> FALSE,
            closes |-> 0, ok |-> FALSE, path |-> 0, truncated |-> FALSE,
            start |-> 0]

\* What a file holds once everything written to it has reached the disk.
Content(f) == files[f].lines \o files[f].pending

\* The subprocess-driven recorder (BundledFFmpegRecorder) after __init__
\* and its window (RecorderGUI) after setup_gui: the attributes of the
\* recorder, the processes, log files and listeners it has made, the two
\* buttons, the pending reset timer, and the line each thread is at: the
\* Tk main thread, the thread that GUI.stop_recording starts and the
\* keyboard listener thread.  after[t] is what follows cleanup_recording
\* in thread t.
V0Threads == {"tk", "worker", "keyboard"}
V0Init ==
    [recording |-> FALSE, ffmpeg_process |-> None, log_file |-> None,
     start_time |-> None, mouse_listener |-> None,
     keyboard_listener |-> None,
     procs |-> <<>>, logs |-> <<>>, made |-> 0, listening |-> {},
     start_button |-> TRUE, stop_button |-> FALSE, timer |-> FALSE,
     pc |-> [t \in V0Threads |-> "idle"],
     after |-> [t \in V0Threads |-> "return"],
     key |-> "none", keys |-> 0, f10 |-> <<>>]

\* The monitor thread before start_obs_monitoring has made it: the line it
\* is at, its locals
\* last_recording_state (line 311) and is_recording, and the successful
\* polls its loop has made, counted up to two.
MonitorStartsActive ==
    [at |-> "none", last |-> TRUE, is |-> FALSE, polls |-> 0]
NoMonitor == [at |-> "none", last |-> FALSE, is |-> FALSE, polls |-> 0]

\* The threads toggle_obs_connection starts to run connect_obs (line 893):
\* the line each is at, the value it returned last, the Thread objects
\* made so far (made), self.obs_monitor_thread (thread, None or an
\* object), the objects that were started, the object whose loop the
\* variable mon follows (loop), and the other objects whose loop is
\* running (extra).
ConnectThreads == {"c1", "c2"}
NoConnects ==
    [pc |-> [c \in ConnectThreads |-> "idle"],
     ret |-> [c \in ConnectThreads |-> "none"],
     made |-> 0, thread |-> None, started |-> {}, loop |-> None,
     extra |-> {}]

\* The Tk main thread waiting for events in root.mainloop(): at is the
\* line of the handler it runs, dis the line of disconnect_obs it is at.
MainLoop == [at |-> "mainloop", dis |-> "none"]

Goto(t, l) == pc' = [pc EXCEPT ![t] = l]

\* A thread leaves the method it is in; its locals die, its result is kept.
Return(t, r) ==
    /\ pc' = [pc EXCEPT ![t] = "idle"]
    /\ loc' = [loc EXCEPT ![t] = [NoLocals EXCEPT !.ret = r]]

\* Line 473: what start_recording_sync returns from its except clause.
StartFailedAsStarted == "True"
StartFailed == "False"

\* An exception raised inside log_event propagates to the caller:
\* start_recording_sync catches it and returns False (lines 471-473),
\* stop_recording catches it and returns (lines 508-509), a listener
\* callback lets it escape (the callback ends), gamepad_loop catches it
\* (lines 165-167).

Raise(t) ==
    IF loc[t].retpc = "L444" THEN Return(t, StartFailed)
    ELSE IF loc[t].retpc = "L491" THEN Return(t, "None")
    ELSE Return(t, "raised")

\* log_event returns to the line after the call; a callback whose last
\* statement was the call returns with it.
LogEventReturn(t) ==
    IF loc[t].retpc = "idle"
    THEN Return(t, "None")
    ELSE Goto(t, loc[t].retpc) /\ UNCHANGED loc

Init ==
    /\ pc = [t \in Threads |-> "idle"]
    /\ loc = [t \in Threads |-> NoLocals]
    /\ recording = FALSE
    /\ start_time = None
    /\ log_file = None
    /\ current_log_path = None
    /\ last_mouse_pos = NoPos
    /\ event_count = 0
    /\ mouse_count = 0
    /\ keyboard_count = 0
    /\ gamepad_count = 0
    /\ mouse_listener = None
    /\ keyboard_listener = None
    /\ running = {}
    /\ tracking = FALSE
    /\ joystick = FALSE
    /\ files = <<>>
    /\ clock = 1
    /\ wall = 1
    /\ wseq = 0
    /\ observed = <<>>
    /\ calls = 0
    /\ fault = "none"
    /\ failed = {}
    /\ misses = 0
    /\ obs_client = None
    /\ obs_connected = FALSE
    /\ should_monitor = TRUE
    /\ connect_ret = "none"
    /\ mon = NoMonitor
    /\ obs_level = FALSE
    /\ polled = <<>>
    /\ fired = <<>>
    /\ ui = MainLoop
    /\ v0 = V0Init
    /\ conn = NoConnects

\* ------------------------------------------------------------ log_event
\* log_event(event_type, details), lines 335-353.  The caller has put the
\* event type in loc.ev, the details in loc.det and the line it continues
\* at in loc.retpc.

\* Line 336: if self.log_file and self.start_time.
LogEvent_L336(t) ==
    /\ pc[t] = "L336"
    /\ IF Truthy(log_file) /\ Truthy(start_time)
       THEN Goto(t, "L337") /\ UNCHANGED loc
       ELSE LogEventReturn(t)
    /\ UNCHANGED <<env, session, counters, sources, files, clock, wall,
                   history, calls>>

\* Line 337: elapsed = time.perf_counter() - self.start_time.
Elapsed(now, start) == now - start

LogEvent_L337(t) ==
    /\ pc[t] = "L337"
    /\ loc' = [loc EXCEPT ![t].ts = Elapsed(clock, start_time),
                          ![t].base = start_time]
    /\ clock' = clock + 1
    /\ Goto(t, "L344")
    /\ UNCHANGED <<env, session, counters, sources, files, wall, history,
                   calls>>

\* The record of lines 338-343, with the rank of its write among all writes
\* and the start time its timestamp was computed from.
LogEntry(t, n) ==
    [type |-> loc[t].ev, ts |-> loc[t].ts, det |-> loc[t].det, seq |-> n,
     base |-> loc[t].base]

\* file.write(s): s joins the text the file object has not flushed yet.
FileWriteFront(f, entry) == [f EXCEPT !.pending = <<entry>> \o @]
FileWrite(f, entry) == [f EXCEPT !.pending = Append(@, entry)]

\* file.flush(): the unflushed text goes to the file, in the order written.
FileFlushKeepsBuffer(f) == f
FileFlush(f) == [f EXCEPT !.lines = @ \o f.pending, !.pending = <<>>]

\* file.close(): flushes and closes; closing a closed file does nothing.
FileCloseLeavesOpen(f) == [f EXCEPT !.closes = @ + 1]
FileClose(f) ==
    IF f.closed THEN [f EXCEPT !.closes = @ + 1]
    ELSE [FileFlush(f) EXCEPT !.closed = TRUE, !.closes = @ + 1]

\* Line 344: self.log_file.write(json.dumps(log_entry) + "\n").
\* self.log_file is read again: None raises AttributeError, a closed file
\* raises ValueError.
\* With the disk full or the file gone the write raises OSError.
\* An exception that escapes a pynput callback ends its listener: the
\* wrapper pynput puts around every callback stops the listener and
\* raises again.
RunningAfterRaise(t) ==
    IF t \in {"mouse", "keyboard"}
    THEN running \ {l \in running : l[1] = t}
    ELSE running

WriteFaults == {"write", "disk_full"}

\* A single failed write leaves the next write free to succeed; a full
\* disk fails every write that follows.
FaultAfterWrite == IF fault = "disk_full" THEN fault ELSE "none"

LogEvent_L344(t) ==
    /\ pc[t] = "L344"
    /\ IF log_file = None \/ files[log_file].closed
       THEN /\ Raise(t)
            /\ running' = RunningAfterRaise(t)
            /\ UNCHANGED <<files, wseq, faults>>
       ELSE IF fault \in WriteFaults
       THEN /\ Raise(t)
            /\ running' = RunningAfterRaise(t)
            /\ fault' = FaultAfterWrite
            /\ failed' = failed \cup {"write"}
            /\ misses' = misses + 1
            /\ UNCHANGED <<files, wseq>>
       ELSE /\ files' = [files EXCEPT
                  ![log_file] = FileWrite(@, LogEntry(t, wseq + 1))]
            /\ wseq' = wseq + 1
            /\ Goto(t, "L345")
            /\ loc' = [loc EXCEPT ![t].ts = 0, ![t].base = 0]
            /\ misses' = 0
            /\ UNCHANGED <<running, fault, failed>>
    /\ UNCHANGED <<v0, conn, link, monitoring, ui, session, counters, mouse_listener,
                   keyboard_listener, tracking, joystick, clock, wall,
                   observed, calls>>

\* Line 345: self.log_file.flush().
LogEvent_L345(t) ==
    /\ pc[t] = "L345"
    /\ IF log_file = None \/ files[log_file].closed
       THEN /\ Raise(t)
            /\ running' = RunningAfterRaise(t)
            /\ UNCHANGED files
       ELSE /\ files' = [files EXCEPT ![log_file] = FileFlush(@)]
            /\ Goto(t, "L347")
            /\ UNCHANGED <<loc, running>>
    /\ UNCHANGED <<env, session, counters, mouse_listener, keyboard_listener,
                   tracking, joystick, clock, wall, history, calls>>

\* Line 347: self.event_count += 1 is a load, an add and a store.
LogEvent_L347(t) ==
    /\ pc[t] = "L347"
    /\ loc' = [loc EXCEPT ![t].tmp = event_count]
    /\ Goto(t, "L347s")
    /\ UNCHANGED <<env, session, counters, sources, files, clock, wall,
                   history, calls>>

LogEvent_L347s(t) ==
    /\ pc[t] = "L347s"
    /\ event_count' = loc[t].tmp + 1
    /\ loc' = [loc EXCEPT ![t].tmp = 0]
    /\ Goto(t, "L348")
    /\ UNCHANGED <<env, session, mouse_count, keyboard_count, gamepad_count,
                   sources, files, clock, wall, history, calls>>

\* Lines 348-353: the load of the counter of the event's category.
LogEvent_L348(t) ==
    /\ pc[t] = "L348"
    /\ LET c == Category(loc[t].ev) IN
       IF c = "none"
       THEN LogEventReturn(t)
       ELSE /\ loc' = [loc EXCEPT ![t].tmp =
                          IF c = "mouse" THEN mouse_count
                          ELSE IF c = "keyboard" THEN keyboard_count
                          ELSE gamepad_count]
            /\ Goto(t, "L348s")
    /\ UNCHANGED <<env, session, counters, sources, files, clock, wall,
                   history, calls>>

\* Lines 349, 351, 353: the store, then log_event returns.
LogEvent_L348s(t) ==
    /\ pc[t] = "L348s"
    /\ LET c == Category(loc[t].ev) IN
       /\ mouse_count' = IF c = "mouse" THEN loc[t].tmp + 1 ELSE mouse_count
       /\ keyboard_count' =
             IF c = "keyboard" THEN loc[t].tmp + 1 ELSE keyboard_count
       /\ gamepad_count' =
             IF c = "gamepad" THEN loc[t].tmp + 1 ELSE gamepad_count
    /\ LogEventReturn(t)
    /\ UNCHANGED <<env, session, event_count, sources, files, clock, wall,
                   history, calls>>

\* -------------------------------------------------- start_recording_sync
\* A controller thread calls start_recording_sync (manual_start, line 922;
\* _obs_monitor_loop, line 322).
StartCall(t) ==
    /\ pc[t] = "idle"
    /\ Goto(t, "L415")
    /\ loc' = [loc EXCEPT ![t] = NoLocals]
    /\ UNCHANGED <<env, session, counters, sources, files, clock, wall,
                   history, calls>>

\* Lines 415-416: if self.recording: return False.
AlreadyRecordingNever == FALSE
AlreadyRecording == recording

Start_L415(t) ==
    /\ pc[t] = "L415"
    /\ IF AlreadyRecording
       THEN Return(t, "False")
       ELSE Goto(t, "L419") /\ UNCHANGED loc
    /\ UNCHANGED <<env, session, counters, sources, files, clock, wall,
                   history, calls>>

\* open(path, "w") on the files opened so far: a file that already is at
\* the path is truncated, and the new file object is added.
OpenForWriting(fs, path) ==
    Append([i \in 1..Len(fs) |->
               IF fs[i].path = path
               THEN [fs[i] EXCEPT !.lines = <<>>, !.truncated = TRUE]
               ELSE fs[i]],
           [NewFile EXCEPT !.path = path])

\* Lines 419-423: the path is made from datetime.now() cut to the second
\* (tick seconds have gone by since it was last read) and the file is
\* opened for writing.  loc.my remembers the file object this call
\* opened.  When open raises, line 471 catches and Start returns False.
Start_L423(t, tick) ==
    /\ pc[t] = "L419"
    /\ wall' = wall + tick
    /\ current_log_path' = wall'
    /\ IF fault = "open"
       THEN /\ fault' = "none"
            /\ failed' = failed \cup {"open"}
            /\ misses' = misses
            /\ Return(t, StartFailed)
            /\ UNCHANGED <<files, log_file, observed>>
       ELSE /\ files' = OpenForWriting(files, wall')
            /\ log_file' = Len(files')
            /\ loc' = [loc EXCEPT ![t].my = Len(files')]
            /\ observed' = Append(observed, <<>>)
            /\ Goto(t, "L425")
            /\ misses' = 0
            /\ UNCHANGED <<fault, failed>>
    /\ UNCHANGED <<v0, conn, link, monitoring, ui, recording, start_time,
                   last_mouse_pos,
                   counters, sources, clock, wseq, calls>>

\* The open of a Start made in a later second than the Start before it.
Start_L419(t) == Start_L423(t, 1)

\* Line 425: self.start_time = time.perf_counter().  The file this call
\* opened is the log of the session that starts at that time.
Start_L425(t) ==
    /\ pc[t] = "L425"
    /\ start_time' = clock
    /\ files' = [files EXCEPT ![loc[t].my].start = clock]
    /\ clock' = clock + 1
    /\ Goto(t, "L442")
    /\ UNCHANGED <<env,
                   loc, recording, log_file, current_log_path, last_mouse_pos,
                   counters, sources, wall, history, calls>>

\* Line 442: self.log_event("SessionStart", session_info).
Start_L442(t) ==
    /\ pc[t] = "L442"
    /\ loc' = [loc EXCEPT ![t].ev = "SessionStart", ![t].det = <<>>,
                          ![t].retpc = "L444"]
    /\ Goto(t, "L336")
    /\ UNCHANGED <<env, session, counters, sources, files, clock, wall,
                   history, calls>>

\* Line 444: self.last_mouse_pos = None, whatever position the session
\* before has left in it.
PosOfSessionBefore(last) == last
PosAtStart(last) == NoPos

Start_L444(t) ==
    /\ pc[t] = "L444"
    /\ last_mouse_pos' = PosAtStart(last_mouse_pos)
    /\ Goto(t, "L445")
    /\ UNCHANGED <<env, loc, recording, start_time, log_file, current_log_path,
                   counters, sources, files, clock, wall, history, calls>>

\* Lines 445-448: the four counters are reset.
Start_L445(t) ==
    /\ pc[t] = "L445"
    /\ event_count' = 0
    /\ mouse_count' = 0
    /\ keyboard_count' = 0
    /\ gamepad_count' = 0
    /\ Goto(t, "L451")
    /\ UNCHANGED <<env, loc, session, sources, files, clock, wall, history,
                   calls>>

\* The listeners running after lines 461-462 of a call whose listeners
\* are named my: mouse_listener.start() raising starts none, and
\* keyboard_listener.start() raising leaves the mouse listener started.
StartedListeners(my, f) ==
    IF f = "mouse_start" THEN {}
    ELSE IF f = "keyboard_start" THEN {<<"mouse", my>>}
    ELSE {<<"mouse", my>>, <<"keyboard", my>>}

ListenerFaults == {"mouse_start", "keyboard_start"}

\* Lines 450-462: a mouse and a keyboard listener are made and started.
\* When a start() raises, line 471 catches and Start returns False.
Start_L451(t) ==
    /\ pc[t] = "L451"
    /\ mouse_listener' = loc[t].my
    /\ keyboard_listener' = loc[t].my
    /\ running' = running \cup StartedListeners(loc[t].my, fault)
    /\ IF fault \in ListenerFaults
       THEN /\ fault' = "none"
            /\ failed' = failed \cup {fault}
            /\ misses' = misses
            /\ Return(t, StartFailed)
       ELSE /\ Goto(t, "L465")
            /\ UNCHANGED <<loc, faults>>
    /\ UNCHANGED <<v0, conn, link, monitoring, ui, session, counters, tracking,
                   joystick,
                   files, clock, wall, history, calls>>

\* Lines 464-465 and 171-184: gamepad_tracker.start_tracking() arms the
\* poll thread when a gamepad is plugged in, and does nothing otherwise.
Start_L465(t) ==
    /\ pc[t] = "L465"
    /\ \E plugged \in BOOLEAN :
          /\ tracking' = (tracking \/ plugged)
          /\ joystick' = (joystick \/ plugged)
    /\ Goto(t, "L467")
    /\ UNCHANGED <<env,
                   loc, session, counters, mouse_listener, keyboard_listener,
                   running, files, clock, wall, history, calls>>

\* Lines 467-469: self.recording = True; return True.  The file object
\* this call opened is marked as the log of a session reported successful.
Start_L467(t) ==
    /\ pc[t] = "L467"
    /\ recording' = TRUE
    /\ files' = [files EXCEPT ![loc[t].my].ok = TRUE]
    /\ Return(t, "True")
    /\ UNCHANGED <<env, start_time, log_file, current_log_path, last_mouse_pos,
                   counters, sources, clock, wall, history, calls>>

StartStep(t) ==
    \/ Start_L415(t)
    \/ Start_L419(t)
    \/ Start_L425(t)
    \/ Start_L442(t)
    \/ Start_L444(t)
    \/ Start_L445(t)
    \/ Start_L451(t)
    \/ Start_L465(t)
    \/ Start_L467(t)

\* --------------------------------------------------------- stop_recording
\* A controller thread calls stop_recording (manual_stop, line 926;
\* _obs_monitor_loop, line 325).
StopCall(t) ==
    /\ pc[t] = "idle"
    /\ Goto(t, "L476")
    /\ loc' = [loc EXCEPT ![t] = NoLocals]
    /\ UNCHANGED <<env, session, counters, sources, files, clock, wall,
                   history, calls>>

\* Lines 476-477: if not self.recording: return.
NotRecordingNever == FALSE
NotRecording == ~recording

Stop_L476(t) ==
    /\ pc[t] = "L476"
    /\ IF NotRecording
       THEN Return(t, "None")
       ELSE Goto(t, "L479") /\ UNCHANGED loc
    /\ UNCHANGED <<env, session, counters, sources, files, clock, wall,
                   history, calls>>

\* Line 479: self.recording = False.
Stop_L479(t) ==
    /\ pc[t] = "L479"
    /\ recording' = FALSE
    /\ Goto(t, "L482")
    /\ UNCHANGED <<env,
                   loc, start_time, log_file, current_log_path, last_mouse_pos,
                   counters, sources, files, clock, wall, history, calls>>

\* The details of the SessionEnd record, lines 484-487.
EndDetails == <<event_count, mouse_count, keyboard_count, gamepad_count>>

\* Lines 482-489: if self.log_file, the counters are read into the details
\* of the SessionEnd record, the duration is taken from the clock and
\* log_event is called.
Stop_L482(t) ==
    /\ pc[t] = "L482"
    /\ IF Truthy(log_file)
       THEN /\ loc' = [loc EXCEPT ![t].ev = "SessionEnd",
                                  ![t].det = EndDetails,
                                  ![t].retpc = "L491"]
            /\ clock' = clock + 1
            /\ Goto(t, "L336")
       ELSE /\ Goto(t, "L491")
            /\ UNCHANGED <<loc, clock>>
    /\ UNCHANGED <<env, session, counters, sources, files, wall, history,
                   calls>>

\* Lines 491-497: both listeners are stopped and forgotten.
Stop_L491(t) ==
    /\ pc[t] = "L491"
    /\ running' = running \ {<<"mouse", mouse_listener>>,
                             <<"keyboard", keyboard_listener>>}
    /\ mouse_listener' = None
    /\ keyboard_listener' = None
    /\ Goto(t, "L499")
    /\ UNCHANGED <<env,
                   loc, session, counters, tracking, joystick, files, clock,
                   wall, history, calls>>

\* Lines 499-500 and 186-201: gamepad_tracker.stop_tracking() clears
\* tracking, waits at most two seconds for the poll thread and drops the
\* joystick.
Stop_L499(t) ==
    /\ pc[t] = "L499"
    /\ tracking' = FALSE
    /\ joystick' = IF tracking THEN FALSE ELSE joystick
    /\ Goto(t, "L502")
    /\ UNCHANGED <<env,
                   loc, session, counters, mouse_listener, keyboard_listener,
                   running, files, clock, wall, history, calls>>

\* Line 502: if self.log_file.
Stop_L502(t) ==
    /\ pc[t] = "L502"
    /\ IF Truthy(log_file)
       THEN Goto(t, "L503") /\ UNCHANGED loc
       ELSE Return(t, "None")
    /\ UNCHANGED <<env, session, counters, sources, files, clock, wall,
                   history, calls>>

\* Line 503: self.log_file.close(); self.log_file is read again, and None
\* raises AttributeError, caught at line 508.
Stop_L503(t) ==
    /\ pc[t] = "L503"
    /\ IF log_file = None
       THEN Return(t, "None") /\ UNCHANGED files
       ELSE /\ files' = [files EXCEPT ![log_file] = FileClose(@)]
            /\ Goto(t, "L504")
            /\ UNCHANGED loc
    /\ UNCHANGED <<env, session, counters, sources, clock, wall, history,
                   calls>>

\* Line 504: self.log_file = None.
Stop_L504(t) ==
    /\ pc[t] = "L504"
    /\ log_file' = None
    /\ Return(t, "None")
    /\ UNCHANGED <<env, recording, start_time, current_log_path, last_mouse_pos,
                   counters, sources, files, clock, wall, history, calls>>

StopStep(t) ==
    \/ Stop_L476(t)
    \/ Stop_L479(t)
    \/ Stop_L482(t)
    \/ Stop_L491(t)
    \/ Stop_L499(t)
    \/ Stop_L502(t)
    \/ Stop_L503(t)
    \/ Stop_L504(t)

\* ------------------------------------------------------- input callbacks
\* The mouse positions the model delivers.
MousePositions == {<<0, 0>>, <<1, 0>>, <<1, 1>>}

\* A source delivers callbacks while it is armed: a pynput listener while
\* it is started and not stopped, the gamepad loop while its condition
\* self.tracking and self.joystick holds (line 107).
Armed(t) ==
    IF t = "gamepad" THEN tracking /\ joystick
    ELSE \E l \in running : l[1] = t

\* Lines 356, 374, 385, 400 and 100: a callback does nothing unless
\* self.recording.
NotArmedForEventsNever == FALSE
NotArmedForEvents == ~recording

\* The listener thread calls on_mouse_move(x, y).
MouseMoveCall(t, x, y) ==
    /\ t = "mouse"
    /\ pc[t] = "idle"
    /\ Armed(t)
    /\ calls' = calls + 1
    /\ loc' = [loc EXCEPT ![t] = [NoLocals EXCEPT !.arg = <<x, y>>]]
    /\ Goto(t, "L356")
    /\ UNCHANGED <<env, session, counters, sources, files, clock, wall,
                   history>>

\* Lines 356-357: if not self.recording: return.  A position that gets
\* past the check is noted as observed during the session of the open log.
MouseMove_L356(t) ==
    /\ pc[t] = "L356"
    /\ IF NotArmedForEvents
       THEN Return(t, "None") /\ UNCHANGED observed
       ELSE /\ Goto(t, "L359")
            /\ observed' = IF log_file = None THEN observed
                            ELSE [observed EXCEPT
                                    ![log_file] = Append(@, loc[t].arg)]
            /\ UNCHANGED loc
    /\ UNCHANGED <<env, session, counters, sources, files, clock, wall, wseq,
                   calls>>

\* Lines 360-361: the delta from the previously observed position.
Delta(pos, last) == <<pos[1] - last[1], pos[2] - last[2]>>

\* Line 363: if abs(delta_x) > 0 or abs(delta_y) > 0.
Abs(n) == IF n < 0 THEN -n ELSE n
MovedAlways(d) == TRUE
Moved(d) == Abs(d[1]) > 0 \/ Abs(d[2]) > 0

\* Lines 359-369: with a previous position and a non-zero delta, the
\* MouseDelta event is logged with dx, dy and (include_mouse_position,
\* on by default) x, y.
MouseMove_L359(t) ==
    /\ pc[t] = "L359"
    /\ IF last_mouse_pos # NoPos /\ Moved(Delta(loc[t].arg, last_mouse_pos))
       THEN /\ loc' = [loc EXCEPT
                  ![t].ev = "MouseDelta",
                  ![t].det = Delta(loc[t].arg, last_mouse_pos) \o loc[t].arg,
                  ![t].retpc = "L371"]
            /\ Goto(t, "L336")
       ELSE Goto(t, "L371") /\ UNCHANGED loc
    /\ UNCHANGED <<env, session, counters, sources, files, clock, wall,
                   history, calls>>

\* Line 371: self.last_mouse_pos = (x, y).
MouseMove_L371(t) ==
    /\ pc[t] = "L371"
    /\ last_mouse_pos' = loc[t].arg
    /\ Return(t, "None")
    /\ UNCHANGED <<env, recording, start_time, log_file, current_log_path,
                   counters, sources, files, clock, wall, history, calls>>

\* The event type a callback other than on_mouse_move logs: on_mouse_click
\* (line 377), on_key_press (line 394), on_key_release (line 409),
\* log_gamepad_event (line 101).
CallbackEvents(t) ==
    IF t = "mouse" THEN {"MouseClick"}
    ELSE IF t = "keyboard" THEN {"KeyDown", "KeyUp"}
    ELSE {"gamepad_button"}

\* A source calls on_mouse_click, on_key_press, on_key_release or
\* log_gamepad_event.
EventCall(t, ev) ==
    /\ t \in Producers
    /\ ev \in CallbackEvents(t)
    /\ pc[t] = "idle"
    /\ Armed(t)
    /\ calls' = calls + 1
    /\ loc' = [loc EXCEPT ![t] = [NoLocals EXCEPT !.ev = ev]]
    /\ Goto(t, "L374")
    /\ UNCHANGED <<env, session, counters, sources, files, clock, wall,
                   history>>

\* Lines 374-377, 385-394, 400-409, 100-101: nothing is logged unless
\* self.recording, else log_event is called.
Event_L374(t) ==
    /\ pc[t] = "L374"
    /\ IF NotArmedForEvents
       THEN Return(t, "None")
       ELSE Goto(t, "L336") /\ UNCHANGED loc
    /\ UNCHANGED <<env, session, counters, sources, files, clock, wall,
                   history, calls>>

\* --------------------------------------------------------- gamepad axes
\* An axis reading event.value is a number from -1.0 to 1.0; the model
\* counts it in thousandths.  Line 130 compares its magnitude with 0.1.
Deadzone == 100
AxisReadings == {-1000, -101, -100, 100, 101}
\* Axes 0 to 3 are the two sticks, axes 4 and 5 the triggers (line 131).
Axes == {3, 4}

\* int(x) of Python cuts towards zero; n / d is x.
Trunc(n, d) == IF n >= 0 THEN n \div d ELSE -((-n) \div d)
Max(a, b) == IF a >= b THEN a ELSE b

\* Line 130: if abs(event.value) > 0.1.
AboveDeadzoneOrOnIt(m) == Abs(m) >= Deadzone
AboveDeadzone(m) == Abs(m) > Deadzone

\* Line 132: raw_value = int(event.value * 32767).
RawValue(m) == Trunc(m * 32767, 1000)
\* Line 140: trigger_value = max(0, int((event.value + 1.0) / 2.0 * 1023)).
TriggerValue(m) == Max(0, Trunc((m + 1000) * 1023, 2000))

\* Lines 133-138 and 142-145: the type and the data of the record.
AxisEvent(axis) == IF axis < 4 THEN "gamepad_stick" ELSE "gamepad_trigger"
AxisData(axis, m) ==
    IF axis < 4
    THEN << IF axis < 2 THEN "left_stick" ELSE "right_stick",
            IF axis % 2 = 0 THEN "x" ELSE "y",
            RawValue(m), m >>
    ELSE << IF axis = 4 THEN "left_trigger" ELSE "right_trigger",
            TriggerValue(m) >>

\* Lines 129-145: gamepad_loop receives a JOYAXISMOTION event.  A reading
\* above the deadzone goes to log_gamepad_event, another one is skipped.
\* A reading received while a session is Recording is noted with its log.
AxisMotion(t, axis, m) ==
    /\ t = "gamepad"
    /\ pc[t] = "idle"
    /\ Armed(t)
    /\ calls' = calls + 1
    /\ observed' = IF recording /\ log_file # None
                    THEN [observed EXCEPT
                            ![log_file] = Append(@, <<axis, m>>)]
                    ELSE observed
    /\ IF AboveDeadzone(m)
       THEN /\ loc' = [loc EXCEPT ![t] = [NoLocals EXCEPT
                           !.ev = AxisEvent(axis), !.det = AxisData(axis, m)]]
            /\ Goto(t, "L374")
       ELSE UNCHANGED <<pc, loc>>
    /\ UNCHANGED <<env, session, counters, sources, files, clock, wall,
                   wseq>>

\* ----------------------------------------------------------- mouse wheel
\* Lines 451-454: mouse.Listener(on_move=..., on_click=...).  The listener
\* is given no on_scroll, and the class has no such method.
MouseCallbacks == {"on_move", "on_click"}

\* The pulses of one wheel motion as pynput reports them (dy).
WheelDeltas == {-1, 0, 1}

\* The mouse listener receives a wheel motion.  pynput calls the function
\* registered for it; with none registered the motion is dropped.  A
\* motion received while a session is Recording is noted with its log.
WheelMotion(t, dy) ==
    /\ t = "mouse"
    /\ pc[t] = "idle"
    /\ Armed(t)
    /\ "on_scroll" \notin MouseCallbacks
    /\ calls' = calls + 1
    /\ observed' = IF recording /\ log_file # None
                    THEN [observed EXCEPT
                            ![log_file] = Append(@, <<"wheel", dy>>)]
                    ELSE observed
    /\ UNCHANGED <<env, pc, loc, session, counters, sources, files, clock,
                   wall, wseq>>

\* ---------------------------------------------------------------- faults
\* The operations of the tracker that the environment can make raise:
\* open (line 423) with the save directory gone or not writable,
\* file.write (line 344) with the disk full, and the start() of a
\* listener (lines 461, 462).  A write fails once, or, with the disk
\* full, every time from then on.
FaultKinds == {"open", "write", "disk_full", "mouse_start", "keyboard_start"}

\* The environment prepares the failure of the next operation of a kind.
Inject(k) ==
    /\ fault = "none"
    /\ failed = {}
    /\ fault' = k
    /\ UNCHANGED <<v0, conn, pc, loc, session, counters, sources, files, clock, wall,
                   history, calls, failed, misses, link, monitoring, ui>>

\* ------------------------------------------------------- the OBS monitor
\* The thread toggle_obs_connection starts (line 893) runs connect_obs,
\* lines 263-285.  When the client is made and answers get_version, the
\* link is connected and start_obs_monitoring (lines 302-308) starts the
\* monitor thread unless one is alive; its first statement (line 311) sets
\* last_recording_state to False.  Otherwise line 284 clears obs_connected.
MonitorAlive == mon.at \notin {"none", "done"}

tracker_but_conn ==
    <<pc, loc, session, counters, sources, files, clock, wall, history,
      calls, faults, link, monitoring, ui>>

\* What can happen to a connect_obs call: it succeeds, obs.ReqClient
\* raises (line 269), or get_version raises (line 275).
ConnectOutcomes == {"connected", "no_client", "no_version"}

\* Line 269 has assigned self.obs_client when the constructor returned.
ClientMade(outcome) == outcome # "no_client"

\* Lines 276-280 are reached when nothing raised; else line 284 runs.
ConnectedAlways(outcome) == TRUE
Connected(outcome) == outcome = "connected"

ConnectObs(outcome) ==
    /\ ui.at = "mainloop"
    /\ ~obs_connected
    /\ obs_client' = IF ClientMade(outcome) THEN 1 ELSE obs_client
    /\ connect_ret' = IF outcome = "connected" THEN "True" ELSE "False"
    /\ IF Connected(outcome)
       THEN /\ obs_connected' = TRUE
            /\ IF MonitorAlive
               THEN UNCHANGED <<should_monitor, mon>>
               ELSE /\ should_monitor' = TRUE
                    /\ mon' = [NoMonitor EXCEPT !.at = "L313"]
       ELSE /\ obs_connected' = FALSE
            /\ UNCHANGED <<should_monitor, mon>>
    /\ UNCHANGED <<v0, conn, pc, loc, session, counters, sources, files, clock, wall,
                   history, calls, faults, obs_level, polled, fired, ui>>

\* The user of the external recorder starts or stops its recording.
ObsToggle ==
    /\ obs_level' = ~obs_level
    /\ UNCHANGED <<v0, conn, pc, loc, session, counters, sources, files, clock, wall,
                   history, calls, faults, link, mon, polled, fired, ui>>

\* Line 313: while self.should_monitor and self.obs_connected.
LoopGoesOnAnyway(sm, oc) == TRUE
LoopGoesOn(sm, oc) == sm /\ oc

Monitor_L313 ==
    /\ mon.at = "L313"
    /\ mon' = [mon EXCEPT !.at = IF LoopGoesOn(should_monitor, obs_connected)
                                 THEN "L315" ELSE "done"]
    /\ UNCHANGED <<v0, conn, pc, loc, session, counters, sources, files, clock, wall,
                   history, calls, faults, link, obs_level, polled, fired, ui>>

\* Line 315: if self.obs_client; otherwise the loop sleeps and goes round.
Monitor_L315 ==
    /\ mon.at = "L315"
    /\ mon' = [mon EXCEPT !.at = IF Truthy(obs_client) THEN "L316" ELSE "L313"]
    /\ UNCHANGED <<v0, conn, pc, loc, session, counters, sources, files, clock, wall,
                   history, calls, faults, link, obs_level, polled, fired, ui>>

\* What a poll reports: status.output_active.
Level(active) == IF active THEN "on" ELSE "off"

\* Lines 331-333: an exception raised in the loop body is printed, the
\* loop sleeps and goes round; last_recording_state is as it was.
PollFailedAsStopped(m) == [m EXCEPT !.at = "L313", !.last = FALSE]
PollFailed(m) == [m EXCEPT !.at = "L313"]

\* Lines 316-317: status = self.obs_client.get_record_status();
\* is_recording = status.output_active.  The request raises when the
\* link fails (ok is false) and when obs_client has become None.
Monitor_L316(ok) ==
    /\ mon.at = "L316"
    /\ IF ok /\ Truthy(obs_client)
       THEN /\ mon' = [mon EXCEPT !.at = "L319", !.is = obs_level,
                                   !.polls = IF @ < 2 THEN @ + 1 ELSE @]
            /\ polled' = Append(polled, Level(obs_level))
       ELSE /\ mon' = PollFailed(mon)
            /\ polled' = Append(polled, "err")
    /\ UNCHANGED <<v0, conn, pc, loc, session, counters, sources, files, clock, wall,
                   history, calls, faults, link, obs_level, fired, ui>>

\* Line 319: if is_recording != last_recording_state.
ChangedAlways(is, last) == TRUE
Changed(is, last) == is # last

\* Lines 320-325: start_recording_sync when the external recorder has
\* become active, stop_recording when it has become inactive; the first
\* line of the method called.
CallsStartOnly(is) == "L415"
CallFor(is) == IF is THEN "L415" ELSE "L476"

\* Lines 319-325: on a change the loop calls start_recording_sync or
\* stop_recording; without one it sleeps and goes round.
Monitor_L319 ==
    /\ mon.at = "L319"
    /\ pc["monitor"] = "idle"
    /\ IF Changed(mon.is, mon.last)
       THEN /\ mon' = [mon EXCEPT !.at = "L327"]
            /\ fired' = Append(fired, IF mon.is THEN "start" ELSE "stop")
            /\ pc' = [pc EXCEPT !["monitor"] = CallFor(mon.is)]
            /\ loc' = [loc EXCEPT !["monitor"] = NoLocals]
       ELSE /\ mon' = [mon EXCEPT !.at = "L313"]
            /\ UNCHANGED <<fired, pc, loc>>
    /\ UNCHANGED <<v0, conn, session, counters, sources, files, clock, wall, history,
                   calls, faults, link, obs_level, polled, ui>>

\* Line 327: last_recording_state = is_recording, once the call has
\* returned, whatever it returned; then the loop sleeps and goes round.
Monitor_L327 ==
    /\ mon.at = "L327"
    /\ pc["monitor"] = "idle"
    /\ mon' = [mon EXCEPT !.at = "L313", !.last = mon.is]
    /\ UNCHANGED <<v0, conn, pc, loc, session, counters, sources, files, clock, wall,
                   history, calls, faults, link, obs_level, polled, fired, ui>>

\* ------------------------------------------- connect_obs on its threads
\* Thread.is_alive(): the thread was started and its loop has not ended.
IsAlive(k) == (k = conn.loop /\ MonitorAlive) \/ k \in conn.extra

\* The poll-loop threads that are alive.
AliveLoops == {k \in conn.started : IsAlive(k)}

\* Lines 889-893 of toggle_obs_connection: with the link not connected
\* the button starts a thread that runs connect_obs.
Toggle_L893(c) ==
    /\ ui.at = "mainloop"
    /\ ~obs_connected
    /\ conn.pc[c] = "idle"
    /\ conn' = [conn EXCEPT !.pc[c] = "L269", !.ret[c] = "none"]
    /\ UNCHANGED <<tracker_but_conn, v0>>

\* Lines 282-285: except Exception: self.obs_connected = False;
\* return False.
ConnectRaised(c) ==
    /\ obs_connected' = FALSE
    /\ connect_ret' = "False"
    /\ conn' = [conn EXCEPT !.pc[c] = "idle", !.ret[c] = "False"]

\* Lines 269-273: self.obs_client = obs.ReqClient(...), which raises
\* when nothing answers at the address.
Connect_L269(c, ok) ==
    /\ conn.pc[c] = "L269"
    /\ IF ok
       THEN /\ obs_client' = 1
            /\ conn' = [conn EXCEPT !.pc[c] = "L275"]
            /\ UNCHANGED <<obs_connected, connect_ret>>
       ELSE ConnectRaised(c) /\ UNCHANGED obs_client
    /\ UNCHANGED <<v0, pc, loc, session, counters, sources, files, clock,
                   wall, history, calls, faults, should_monitor, monitoring,
                   ui>>

\* Lines 275-276: version_info = self.obs_client.get_version();
\* self.obs_connected = True.  The request raises when the link fails and
\* when self.obs_client has become None.
Connect_L275(c, ok) ==
    /\ conn.pc[c] = "L275"
    /\ IF ok /\ Truthy(obs_client)
       THEN /\ obs_connected' = TRUE
            /\ conn' = [conn EXCEPT !.pc[c] = "L303"]
            /\ UNCHANGED connect_ret
       ELSE ConnectRaised(c)
    /\ UNCHANGED <<v0, pc, loc, session, counters, sources, files, clock,
                   wall, history, calls, faults, obs_client, should_monitor,
                   monitoring, ui>>

\* Lines 303-304 of start_obs_monitoring: with a monitor thread alive it
\* returns, and connect_obs returns True (line 280).
Connect_L303(c) ==
    /\ conn.pc[c] = "L303"
    /\ IF Truthy(conn.thread) /\ IsAlive(conn.thread)
       THEN /\ conn' = [conn EXCEPT !.pc[c] = "idle", !.ret[c] = "True"]
            /\ connect_ret' = "True"
       ELSE /\ conn' = [conn EXCEPT !.pc[c] = "L306"]
            /\ UNCHANGED connect_ret
    /\ UNCHANGED <<v0, pc, loc, session, counters, sources, files, clock,
                   wall, history, calls, faults, obs_client, obs_connected,
                   should_monitor, monitoring, ui>>

\* Line 306: self.should_monitor = True.
Connect_L306(c) ==
    /\ conn.pc[c] = "L306"
    /\ should_monitor' = TRUE
    /\ conn' = [conn EXCEPT !.pc[c] = "L307"]
    /\ UNCHANGED <<v0, pc, loc, session, counters, sources, files, clock,
                   wall, history, calls, faults, obs_client, obs_connected,
                   connect_ret, monitoring, ui>>

\* Line 307: self.obs_monitor_thread = threading.Thread(...).
Connect_L307(c) ==
    /\ conn.pc[c] = "L307"
    /\ conn' = [conn EXCEPT !.pc[c] = "L308", !.made = @ + 1,
                            !.thread = conn.made + 1]
    /\ UNCHANGED <<tracker_but_conn, v0>>

\* Line 308: self.obs_monitor_thread.start(), on the object the attribute
\* holds now.  A thread that was started already raises RuntimeError,
\* which line 282 catches.  The loop of the first thread alive is the one
\* mon follows; its first statement (line 311) sets last_recording_state
\* to False.  Then connect_obs returns True (line 280).
Connect_L308(c) ==
    /\ conn.pc[c] = "L308"
    /\ IF conn.thread \in conn.started
       THEN /\ ConnectRaised(c)
            /\ UNCHANGED mon
       ELSE /\ connect_ret' = "True"
            /\ UNCHANGED obs_connected
            /\ IF MonitorAlive
               THEN /\ conn' = [conn EXCEPT
                          !.pc[c] = "idle", !.ret[c] = "True",
                          !.started = @ \cup {conn.thread},
                          !.extra = @ \cup {conn.thread}]
                    /\ UNCHANGED mon
               ELSE /\ conn' = [conn EXCEPT
                          !.pc[c] = "idle", !.ret[c] = "True",
                          !.started = @ \cup {conn.thread},
                          !.loop = conn.thread]
                    /\ mon' = [NoMonitor EXCEPT !.at = "L313"]
    /\ UNCHANGED <<v0, pc, loc, session, counters, sources, files, clock,
                   wall, history, calls, faults, obs_client, should_monitor,
                   obs_level, polled, fired, ui>>

\* Line 313 in a further poll-loop thread k: the thread ends when the
\* condition of its loop is false; its rounds are not followed.
Extra_L313(k) ==
    /\ k \in conn.extra
    /\ conn' = IF LoopGoesOn(should_monitor, obs_connected) THEN conn
               ELSE [conn EXCEPT !.extra = @ \ {k}]
    /\ UNCHANGED <<tracker_but_conn, v0>>

\* The steps of connect_obs on thread c.
ConnectStep(c) ==
    \/ \E ok \in BOOLEAN : Connect_L269(c, ok)
    \/ \E ok \in BOOLEAN : Connect_L275(c, ok)
    \/ Connect_L303(c)
    \/ Connect_L306(c)
    \/ Connect_L307(c)
    \/ Connect_L308(c)

\* ------------------------------------------------------ closing the window
\* Line 930 of on_closing: if self.tracker.recording.
Closing_L930 ==
    /\ ui.at = "mainloop"
    /\ pc["gui"] = "idle"
    /\ ui' = [ui EXCEPT !.at = IF recording THEN "L931" ELSE "L936"]
    /\ UNCHANGED <<v0, conn, pc, loc, session, counters, sources, files, clock, wall,
                   history, calls, faults, link, monitoring>>

\* Line 931: messagebox.askokcancel; on Cancel the handler returns.
Closing_L931(answer) ==
    /\ ui.at = "L931"
    /\ ui' = [ui EXCEPT !.at = IF answer THEN "L932" ELSE "mainloop"]
    /\ UNCHANGED <<v0, conn, pc, loc, session, counters, sources, files, clock, wall,
                   history, calls, faults, link, monitoring>>

\* Line 932: self.tracker.stop_recording().
Closing_L932 ==
    /\ ui.at = "L932"
    /\ pc["gui"] = "idle"
    /\ pc' = [pc EXCEPT !["gui"] = "L476"]
    /\ loc' = [loc EXCEPT !["gui"] = NoLocals]
    /\ ui' = [ui EXCEPT !.at = "L933"]
    /\ UNCHANGED <<v0, conn, session, counters, sources, files, clock, wall, history,
                   calls, faults, link, monitoring>>

\* Lines 889-890 of toggle_obs_connection: with the link connected the
\* button calls disconnect_obs on the Tk main thread.  (Otherwise it
\* starts the thread that runs connect_obs.)
Toggle_L889 ==
    /\ ui.at = "mainloop"
    /\ pc["gui"] = "idle"
    /\ obs_connected
    /\ ui' = [ui EXCEPT !.at = "L890"]
    /\ UNCHANGED <<v0, conn, pc, loc, session, counters, sources, files, clock, wall,
                   history, calls, faults, link, monitoring>>

\* The lines of on_closing and of toggle_obs_connection that call
\* disconnect_obs, and where each call returns to.
DisconnectCallers == {"L933", "L936", "L890"}
AfterDisconnect(at) ==
    IF at = "L933" THEN "L934"
    ELSE IF at = "L936" THEN "L937"
    ELSE "mainloop"

\* Line 288 of disconnect_obs, called from line 890, 933 or 936 once the
\* call before it has returned: self.should_monitor = False.
Disconnect_L288 ==
    /\ ui.at \in DisconnectCallers
    /\ ui.dis = "none"
    /\ pc["gui"] = "idle"
    /\ should_monitor' = FALSE
    /\ ui' = [ui EXCEPT !.dis = "L290"]
    /\ UNCHANGED <<v0, conn, pc, loc, session, counters, sources, files, clock, wall,
                   history, calls, faults, obs_client, obs_connected,
                   connect_ret, monitoring>>

\* Lines 290-291: a monitor thread that is alive is joined with a timeout
\* of two seconds: the call returns when the thread has ended or when
\* the two seconds are over.
Disconnect_L290(timedout) ==
    /\ ui.dis = "L290"
    /\ timedout \/ ~MonitorAlive
    /\ ui' = [ui EXCEPT !.dis = "L293"]
    /\ UNCHANGED <<v0, conn, pc, loc, session, counters, sources, files, clock, wall,
                   history, calls, faults, link, monitoring>>

\* Lines 293-298: the client is disconnected and forgotten.
Disconnect_L293 ==
    /\ ui.dis = "L293"
    /\ obs_client' = None
    /\ ui' = [ui EXCEPT !.dis = "L300"]
    /\ UNCHANGED <<v0, conn, pc, loc, session, counters, sources, files, clock, wall,
                   history, calls, faults, obs_connected, should_monitor,
                   connect_ret, monitoring>>

\* Line 300: self.obs_connected = False; disconnect_obs returns to the
\* line of on_closing after the call, or to mainloop.
Disconnect_L300 ==
    /\ ui.dis = "L300"
    /\ obs_connected' = FALSE
    /\ ui' = [at |-> AfterDisconnect(ui.at), dis |-> "none"]
    /\ UNCHANGED <<v0, conn, pc, loc, session, counters, sources, files, clock, wall,
                   history, calls, faults, obs_client, should_monitor,
                   connect_ret, monitoring>>

\* Lines 934 and 937: self.root.destroy() ends mainloop and with it the
\* process; the other threads are daemon threads and end where they are.
Closing_L934 ==
    /\ ui.at \in {"L934", "L937"}
    /\ ui' = [ui EXCEPT !.at = "destroyed"]
    /\ UNCHANGED <<v0, conn, pc, loc, session, counters, sources, files, clock, wall,
                   history, calls, faults, link, monitoring>>

\* The process is running.
Running == ui.at # "destroyed"

\* ------------------------------------- the subprocess-driven recorder (V0)
\* Everything of the tracker of V2.1 stays as it is.
tracker == <<pc, loc, session, counters, sources, files, clock, wall,
             history, calls, faults, link, monitoring, ui, conn>>

\* Lines 309-312 of start_recording and 349-350 of stop_recording: thread
\* t goes into cleanup_recording; what follows it is noted.
V0Cleanup(t, then) ==
    [v0 EXCEPT !.pc[t] = "L355", !.after[t] = then]

\* RecorderGUI.start_recording, lines 510-519: the Start button calls
\* recorder.start_recording on the Tk main thread unless
\* recorder.recording; line 196 of the recorder tests it again.
V0_StartCall ==
    /\ v0.pc["tk"] = "idle"
    /\ v0.start_button
    /\ ~v0.recording
    /\ v0' = [v0 EXCEPT !.pc["tk"] = "L201"]
    /\ UNCHANGED tracker

\* Lines 201-203: get_ffmpeg_path(); without ffmpeg an exception is raised.
V0_Start_L201(found) ==
    /\ v0.pc["tk"] = "L201"
    /\ v0' = IF found THEN [v0 EXCEPT !.pc["tk"] = "L278"]
             ELSE V0Cleanup("tk", "raise")
    /\ UNCHANGED tracker

\* Lines 278-285: self.ffmpeg_process = subprocess.Popen(...), which
\* raises when the program cannot be run.
V0_Start_L278(ok) ==
    /\ v0.pc["tk"] = "L278"
    /\ v0' = IF ok
             THEN [v0 EXCEPT !.procs = Append(@, "running"),
                             !.ffmpeg_process = Len(v0.procs) + 1,
                             !.pc["tk"] = "L289"]
             ELSE V0Cleanup("tk", "raise")
    /\ UNCHANGED tracker

\* Lines 288-292: if self.ffmpeg_process.poll() is not None, ffmpeg has
\* exited at once and an exception is raised.  With self.ffmpeg_process
\* cleared by another thread the test raises AttributeError.
V0_Start_L289(alive) ==
    /\ v0.pc["tk"] = "L289"
    /\ v0' = IF v0.ffmpeg_process = None
             THEN V0Cleanup("tk", "raise")
             ELSE IF alive /\ v0.procs[v0.ffmpeg_process] = "running"
             THEN [v0 EXCEPT !.pc["tk"] = "L295"]
             ELSE [V0Cleanup("tk", "raise") EXCEPT
                      !.procs[v0.ffmpeg_process] = "exited"]
    /\ UNCHANGED tracker

\* Lines 295-297: self.log_file = open(self.log_path, "w", buffering=1);
\* self.start_time = time.perf_counter().
V0_Start_L295(ok) ==
    /\ v0.pc["tk"] = "L295"
    /\ v0' = IF ok
             THEN [v0 EXCEPT !.logs = Append(@, [lines |-> <<>>,
                                                 closed |-> FALSE]),
                             !.log_file = Len(v0.logs) + 1,
                             !.start_time = 1,
                             !.pc["tk"] = "L300"]
             ELSE V0Cleanup("tk", "raise")
    /\ UNCHANGED tracker

\* Lines 161-179: start_input_listeners makes both listeners, then starts
\* the mouse listener, then the keyboard listener; when a start() raises
\* it returns False.
V0ListenerOutcomes == {"started", "mouse_failed", "keyboard_failed"}
V0Started(id, outcome) ==
    IF outcome = "started" THEN {<<"mouse", id>>, <<"keyboard", id>>}
    ELSE IF outcome = "keyboard_failed" THEN {<<"mouse", id>>}
    ELSE {}

\* Lines 300-301: if not self.start_input_listeners(): raise.
V0_Start_L300(outcome) ==
    /\ v0.pc["tk"] = "L300"
    /\ LET id == v0.made + 1
           w == [v0 EXCEPT !.made = id,
                           !.mouse_listener = id,
                           !.keyboard_listener = id,
                           !.listening = @ \cup V0Started(id, outcome)]
       IN v0' = IF outcome = "started"
                THEN [w EXCEPT !.pc["tk"] = "L303"]
                ELSE [w EXCEPT !.pc["tk"] = "L355", !.after["tk"] = "raise"]
    /\ UNCHANGED tracker

\* Lines 303-307: self.recording = True; return True.  Back in the GUI
\* (lines 521-523) the Start button is disabled and the Stop button
\* enabled.
V0_Start_L303 ==
    /\ v0.pc["tk"] = "L303"
    /\ v0' = [v0 EXCEPT !.recording = TRUE,
                        !.start_button = FALSE,
                        !.stop_button = TRUE,
                        !.pc["tk"] = "idle"]
    /\ UNCHANGED tracker

\* Lines 355-358 of cleanup_recording: a held process is terminated when
\* it still runs, and forgotten.
V0_Cleanup_L355(t) ==
    /\ v0.pc[t] = "L355"
    /\ v0' = IF v0.ffmpeg_process # None
             THEN [v0 EXCEPT !.procs[v0.ffmpeg_process] = "exited",
                             !.ffmpeg_process = None,
                             !.pc[t] = "L360"]
             ELSE [v0 EXCEPT !.pc[t] = "L360"]
    /\ UNCHANGED tracker

\* Lines 360-361: if self.log_file: self.log_file.close().
V0_Cleanup_L360(t) ==
    /\ v0.pc[t] = "L360"
    /\ v0' = IF v0.log_file # None
             THEN [v0 EXCEPT !.logs[v0.log_file].closed = TRUE,
                             !.pc[t] = "L362"]
             ELSE [v0 EXCEPT !.pc[t] = "L364"]
    /\ UNCHANGED tracker

\* Line 362: self.log_file = None.
V0_Cleanup_L362(t) ==
    /\ v0.pc[t] = "L362"
    /\ v0' = [v0 EXCEPT !.log_file = None, !.pc[t] = "L364"]
    /\ UNCHANGED tracker

\* Lines 364 and 181-192: stop_input_listeners stops and forgets both
\* listeners.  cleanup_recording returns: start_recording raises again
\* (line 312) and the GUI resets its buttons (lines 527-532, 546-551);
\* stop_recording returns.
V0_Cleanup_L364(t) ==
    /\ v0.pc[t] = "L364"
    /\ LET w == [v0 EXCEPT
                    !.listening = @ \ {<<"mouse", v0.mouse_listener>>,
                                       <<"keyboard", v0.keyboard_listener>>},
                    !.mouse_listener = None,
                    !.keyboard_listener = None,
                    !.pc[t] = "idle",
                    !.after[t] = "return"]
       IN v0' = IF v0.after[t] = "raise"
                THEN [w EXCEPT !.start_button = TRUE, !.stop_button = FALSE]
                ELSE w
    /\ UNCHANGED tracker

\* RecorderGUI.stop_recording, lines 534-544: unless not recording, the
\* Stop button is disabled, recorder.stop_recording is started in a
\* thread of its own and reset_gui_after_stop is set to run in 3 s.
V0_StopButton ==
    /\ v0.pc["tk"] = "idle"
    /\ v0.pc["worker"] = "idle"
    /\ v0.stop_button
    /\ v0.recording
    /\ v0' = [v0 EXCEPT !.stop_button = FALSE,
                        !.timer = TRUE,
                        !.pc["worker"] = "L316"]
    /\ UNCHANGED tracker

\* Lines 546-551: the timer runs reset_gui_after_stop on the Tk main
\* thread: the Start button is enabled, the Stop button disabled.  By
\* then, 3 s after its start, the thread of stop_recording has cleared
\* recording; it can still be waiting for ffmpeg (up to 15 s, lines
\* 334-343).
V0_Reset ==
    /\ v0.pc["tk"] = "idle"
    /\ v0.timer
    /\ v0.pc["worker"] \notin {"L316", "L320"}
    /\ v0' = [v0 EXCEPT !.timer = FALSE,
                        !.start_button = TRUE,
                        !.stop_button = FALSE]
    /\ UNCHANGED tracker

\* Lines 316-317 of stop_recording: if not self.recording: return.
V0_Stop_L316(t) ==
    /\ v0.pc[t] = "L316"
    /\ v0' = [v0 EXCEPT !.pc[t] = IF v0.recording THEN "L320" ELSE "idle"]
    /\ UNCHANGED tracker

\* Line 320: self.recording = False.
V0_Stop_L320(t) ==
    /\ v0.pc[t] = "L320"
    /\ v0' = [v0 EXCEPT !.recording = FALSE, !.pc[t] = "L324"]
    /\ UNCHANGED tracker

\* Lines 324-350: a held process that runs is told to quit and waited
\* for, terminated after 10 s and killed after 5 s more; whatever
\* happens, cleanup_recording follows (finally).
V0_Stop_L324(t) ==
    /\ v0.pc[t] = "L324"
    /\ v0' = IF v0.ffmpeg_process # None
             THEN [V0Cleanup(t, "return") EXCEPT
                      !.procs[v0.ffmpeg_process] = "exited"]
             ELSE V0Cleanup(t, "return")
    /\ UNCHANGED tracker

\* The keys the model releases.
V0Keys == {"f10", "a"}

\* The keyboard listener, while it runs, calls on_key_release(key).
V0_KeyRelease(key) ==
    /\ v0.pc["keyboard"] = "idle"
    /\ \E l \in v0.listening : l[1] = "keyboard"
    /\ v0' = [v0 EXCEPT !.pc["keyboard"] = "L144",
                        !.key = key,
                        !.keys = @ + 1]
    /\ UNCHANGED tracker

\* Lines 144-145: if not self.recording: return.  An F10 release that
\* gets past the test is noted with the log and the process of the
\* session.
V0_KeyRelease_L144 ==
    /\ v0.pc["keyboard"] = "L144"
    /\ v0' = IF ~v0.recording
             THEN [v0 EXCEPT !.pc["keyboard"] = "idle"]
             ELSE [v0 EXCEPT !.pc["keyboard"] = "L152",
                             !.f10 = IF v0.key = "f10"
                                     THEN <<v0.log_file, v0.ffmpeg_process>>
                                     ELSE @]
    /\ UNCHANGED tracker

\* Lines 152 and 89-99: log_event("KeyUp", ...) writes and flushes the
\* record when self.log_file and self.start_time are set.  The write to
\* a closed file raises ValueError, which leaves on_key_release and ends
\* the listener.
V0_KeyRelease_L152 ==
    /\ v0.pc["keyboard"] = "L152"
    /\ v0' = IF v0.log_file = None \/ v0.start_time = None
             THEN [v0 EXCEPT !.pc["keyboard"] = "L157"]
             ELSE IF v0.logs[v0.log_file].closed
             THEN [v0 EXCEPT
                     !.pc["keyboard"] = "idle",
                     !.listening = {l \in @ : l[1] # "keyboard"}]
             ELSE [v0 EXCEPT
                     !.logs[v0.log_file].lines =
                         Append(@, [type |-> "KeyUp", key |-> v0.key]),
                     !.pc["keyboard"] = "L157"]
    /\ UNCHANGED tracker

\* Line 157: if key == keyboard.Key.f10.
V0IsStopKeyNever(key) == FALSE
V0IsStopKey(key) == key = "f10"

\* Lines 157-159: on F10 stop_recording is called on the listener thread.
V0_KeyRelease_L157 ==
    /\ v0.pc["keyboard"] = "L157"
    /\ v0' = [v0 EXCEPT !.pc["keyboard"] =
                  IF V0IsStopKey(v0.key) THEN "L316" ELSE "idle"]
    /\ UNCHANGED tracker

\* The steps of start_recording, of stop_recording and cleanup_recording
\* in thread t, and of on_key_release.
V0StartStep ==
    \/ \E found \in BOOLEAN : V0_Start_L201(found)
    \/ \E ok \in BOOLEAN : V0_Start_L278(ok)
    \/ \E alive \in BOOLEAN : V0_Start_L289(alive)
    \/ \E ok \in BOOLEAN : V0_Start_L295(ok)
    \/ \E outcome \in V0ListenerOutcomes : V0_Start_L300(outcome)
    \/ V0_Start_L303

V0StopStep(t) ==
    \/ V0_Stop_L316(t)
    \/ V0_Stop_L320(t)
    \/ V0_Stop_L324(t)
    \/ V0_Cleanup_L355(t)
    \/ V0_Cleanup_L360(t)
    \/ V0_Cleanup_L362(t)
    \/ V0_Cleanup_L364(t)

V0KeyStep ==
    \/ V0_KeyRelease_L144
    \/ V0_KeyRelease_L152
    \/ V0_KeyRelease_L157
    \/ V0StopStep("keyboard")

\* The user starts recordings and stops them with the Stop button or F10.
\* At most MaxFiles encoder processes are started and MaxCalls keys
\* released.
NextV0 ==
    \/ Len(v0.procs) < MaxFiles /\ V0_StartCall
    \/ V0StartStep
    \/ V0StopStep("tk")
    \/ V0_StopButton
    \/ V0_Reset
    \/ V0StopStep("worker")
    \/ \E key \in V0Keys : v0.keys < MaxCalls /\ V0_KeyRelease(key)
    \/ V0KeyStep

SpecV0 == Init /\ [][NextV0]_vars

\* The user starts recordings and ends them with the Stop button or with
\* F10, never with both at a time: a key is released while no Stop
\* button thread runs, and the button is pressed outside on_key_release.
\* The threads are scheduled fairly.
NextF10 ==
    \/ Len(v0.procs) < MaxFiles /\ v0.pc["worker"] = "idle" /\ V0_StartCall
    \/ V0StartStep
    \/ V0StopStep("tk")
    \/ v0.pc["keyboard"] = "idle" /\ V0_StopButton
    \/ v0.pc["worker"] = "idle" /\ V0_Reset
    \/ V0StopStep("worker")
    \/ \E key \in V0Keys :
          /\ v0.keys < MaxCalls
          /\ v0.pc["worker"] = "idle"
          /\ V0_KeyRelease(key)
    \/ V0KeyStep

SpecF10 ==
    /\ Init
    /\ [][NextF10]_vars
    /\ WF_vars(V0KeyStep)
    /\ WF_vars(V0StopStep("worker"))

\* --------------------------------------------------------- specifications
AllIdle == \A t \in Threads : pc[t] = "idle"

\* The calls of start_recording_sync that have not opened their file yet.
Opening == {t \in Threads : pc[t] \in {"L415", "L419"}}
\* The model opens at most MaxFiles log files.
CanOpen == Len(files) + Cardinality(Opening) < MaxFiles

\* The steps inside log_event, the guarded methods and the callbacks.
LogEventSteps(t) ==
    \/ LogEvent_L336(t)
    \/ LogEvent_L337(t)
    \/ LogEvent_L344(t)
    \/ LogEvent_L345(t)
    \/ LogEvent_L347(t)
    \/ LogEvent_L347s(t)
    \/ LogEvent_L348(t)

\* Calls made one after the other by the controller threads and the
\* sources: a call begins when no call is running.
NextSeq ==
    \/ \E t \in Controllers : AllIdle /\ CanOpen /\ StartCall(t)
    \/ \E t \in Controllers : AllIdle /\ StopCall(t)
    \/ \E t \in Producers : \E ev \in CallbackEvents(t) :
          AllIdle /\ calls < MaxCalls /\ EventCall(t, ev)
    \/ \E t \in Producers : Event_L374(t) \/ LogEvent_L348s(t)
    \/ \E t \in Threads : StartStep(t) \/ StopStep(t) \/ LogEventSteps(t)

SpecSeq == Init /\ [][NextSeq]_vars

\* The mouse listener delivers positions one after the other while the
\* sessions are started and stopped between them.
NextMouse ==
    \/ AllIdle /\ CanOpen /\ StartCall("gui")
    \/ AllIdle /\ StopCall("gui")
    \/ \E p \in MousePositions :
          AllIdle /\ calls < MaxMoves /\ MouseMoveCall("mouse", p[1], p[2])
    \/ MouseMove_L356("mouse")
    \/ MouseMove_L359("mouse")
    \/ MouseMove_L371("mouse")
    \/ LogEvent_L348s("mouse")
    \/ \E t \in {"gui", "mouse"} : LogEventSteps(t)
    \/ StartStep("gui")
    \/ StopStep("gui")

SpecMouse == Init /\ [][NextMouse]_vars

\* The two controller threads call Start and Stop concurrently.
NextCtl ==
    \E t \in Controllers :
       \/ CanOpen /\ StartCall(t)
       \/ StopCall(t)
       \/ StartStep(t)
       \/ StopStep(t)
       \/ LogEventSteps(t)

SpecCtl == Init /\ [][NextCtl]_vars

\* One session: one controller thread starts and stops it while sources
\* deliver their events concurrently.
FanInEvents == {"MouseClick", "KeyDown", "gamepad_button"}
FanInProducers == {"mouse", "gamepad"}

NextFanIn ==
    \/ files = <<>> /\ StartCall("gui")
    \/ StopCall("gui")
    \/ StartStep("gui")
    \/ StopStep("gui")
    \/ \E t \in FanInProducers : \E ev \in CallbackEvents(t) \cap FanInEvents :
          calls < MaxCalls /\ EventCall(t, ev)
    \/ \E t \in FanInProducers : Event_L374(t) \/ LogEvent_L348s(t)
    \/ \E t \in FanInProducers \cup {"gui"} : LogEventSteps(t)

SpecFanIn == Init /\ [][NextFanIn]_vars

\* Two sessions, one controller thread and the mouse listener: a callback
\* of the first session can still be running when the second one starts.
NextLate ==
    \/ CanOpen /\ StartCall("gui")
    \/ StopCall("gui")
    \/ StartStep("gui")
    \/ StopStep("gui")
    \/ calls < MaxCalls /\ EventCall("mouse", "MouseClick")
    \/ Event_L374("mouse")
    \/ LogEvent_L348s("mouse")
    \/ \E t \in {"gui", "mouse"} : LogEventSteps(t)

SpecLate == Init /\ [][NextLate]_vars

\* One session in which the gamepad thread receives axis readings one
\* after the other.
NextAxis ==
    \/ AllIdle /\ files = <<>> /\ StartCall("gui")
    \/ AllIdle /\ StopCall("gui")
    \/ \E axis \in Axes : \E m \in AxisReadings :
          AllIdle /\ calls < MaxCalls /\ AxisMotion("gamepad", axis, m)
    \/ Event_L374("gamepad")
    \/ LogEvent_L348s("gamepad")
    \/ \E t \in {"gui", "gamepad"} : LogEventSteps(t)
    \/ StartStep("gui")
    \/ StopStep("gui")

SpecAxis == Init /\ [][NextAxis]_vars

\* The monitor loop is about to call start_recording_sync.
MonitorCalls == mon.at = "L319" /\ mon.is /\ Changed(mon.is, mon.last)

\* One failure in a run of calls made one after the other by the Tk main
\* thread, the keyboard listener and the gamepad thread.
FaultProducers == {"keyboard", "gamepad"}

NextFault ==
    \/ \E k \in FaultKinds : AllIdle /\ Inject(k)
    \/ AllIdle /\ CanOpen /\ StartCall("gui")
    \/ AllIdle /\ StopCall("gui")
    \/ \E t \in FaultProducers : \E ev \in CallbackEvents(t) \cap FanInEvents :
          AllIdle /\ calls < MaxCalls /\ EventCall(t, ev)
    \/ \E t \in FaultProducers : Event_L374(t) \/ LogEvent_L348s(t)
    \/ \E t \in FaultProducers \cup {"gui"} : LogEventSteps(t)
    \/ StartStep("gui")
    \/ StopStep("gui")

SpecFault == Init /\ [][NextFault]_vars

\* Sessions started and stopped by hand one after the other, where a
\* Start can fall into the second of the Start before it.
NextPath ==
    \/ AllIdle /\ CanOpen /\ StartCall("gui")
    \/ AllIdle /\ StopCall("gui")
    \/ Start_L423("gui", 0)
    \/ StartStep("gui")
    \/ StopStep("gui")
    \/ LogEventSteps("gui")

SpecPath == Init /\ [][NextPath]_vars

\* manual_start and manual_stop (lines 920-926) with the OBS link never
\* connected, and the keyboard listener delivering events between them.
NextManual ==
    \/ AllIdle /\ CanOpen /\ StartCall("gui")
    \/ AllIdle /\ StopCall("gui")
    \/ \E ev \in CallbackEvents("keyboard") :
          AllIdle /\ calls < MaxCalls /\ EventCall("keyboard", ev)
    \/ Event_L374("keyboard")
    \/ LogEvent_L348s("keyboard")
    \/ \E t \in {"gui", "keyboard"} : LogEventSteps(t)
    \/ StartStep("gui")
    \/ StopStep("gui")

SpecManual == Init /\ [][NextManual]_vars

\* The user closes the window while the monitor thread follows the
\* external recorder, whose polls succeed.
NextClose ==
    \/ \E o \in ConnectOutcomes : Running /\ mon.at = "none" /\ ConnectObs(o)
    \/ Running /\ ObsToggle
    \/ Running /\ Monitor_L313
    \/ Running /\ Monitor_L315
    \/ Running /\ Len(polled) < MaxClosePolls /\ Monitor_L316(TRUE)
    \/ Running /\ (MonitorCalls => CanOpen) /\ Monitor_L319
    \/ Running /\ Monitor_L327
    \/ Closing_L930
    \/ \E answer \in BOOLEAN : Closing_L931(answer)
    \/ Closing_L932
    \/ Disconnect_L288
    \/ \E timedout \in BOOLEAN : Disconnect_L290(timedout)
    \/ Disconnect_L293
    \/ Disconnect_L300
    \/ Closing_L934
    \/ \E t \in Controllers :
          Running /\ (StartStep(t) \/ StopStep(t) \/ LogEventSteps(t))

SpecClose == Init /\ [][NextClose]_vars

\* The user connects and disconnects the link with the button while the
\* monitor thread follows the external recorder.
NextLink ==
    \/ \E o \in ConnectOutcomes : ConnectObs(o)
    \/ Toggle_L889
    \/ Disconnect_L288
    \/ \E timedout \in BOOLEAN : Disconnect_L290(timedout)
    \/ Disconnect_L293
    \/ Disconnect_L300
    \/ ObsToggle
    \/ Monitor_L313
    \/ Monitor_L315
    \/ \E ok \in BOOLEAN : Len(polled) < MaxClosePolls /\ Monitor_L316(ok)
    \/ (MonitorCalls => CanOpen) /\ Monitor_L319
    \/ Monitor_L327
    \/ StartStep("monitor")
    \/ StopStep("monitor")
    \/ LogEventSteps("monitor")

SpecLink == Init /\ [][NextLink]_vars

\* The steps of the monitor thread: the loop and the methods it calls.
\* The loop makes at most MaxClosePolls polls while it is meant to run
\* and opens at most MaxFiles files; once told to end it is not held up.
\* Its polls have the outcomes oks: success, failure or both.
MonitorStep(oks) ==
    \/ Monitor_L313
    \/ Monitor_L315
    \/ \E ok \in oks :
          /\ Len(polled) < MaxClosePolls \/ ~should_monitor
          /\ Monitor_L316(ok)
    \/ ((MonitorCalls => CanOpen) \/ ~should_monitor) /\ Monitor_L319
    \/ Monitor_L327
    \/ StartStep("monitor")
    \/ StopStep("monitor")
    \/ LogEventSteps("monitor")

\* The steps of disconnect_obs on the Tk main thread.
DisconnectStep ==
    \/ Disconnect_L288
    \/ \E timedout \in BOOLEAN : Disconnect_L290(timedout)
    \/ Disconnect_L293
    \/ Disconnect_L300

\* One connection, which the user ends with the button; no Connect
\* follows.  The threads are scheduled by the operating system: a thread
\* that can take a step takes one in the end.
NextUnlink ==
    \/ mon.at = "none" /\ ConnectObs("connected")
    \/ Toggle_L889
    \/ ObsToggle
    \/ DisconnectStep
    \/ MonitorStep(BOOLEAN)

SpecUnlink ==
    /\ Init
    /\ [][NextUnlink]_vars
    /\ WF_vars(DisconnectStep)
    /\ WF_vars(MonitorStep(BOOLEAN))

\* The steps of the keyboard listener thread in its callbacks.
KeyboardStep ==
    \/ Event_L374("keyboard")
    \/ LogEvent_L348s("keyboard")
    \/ LogEventSteps("keyboard")

\* The monitor thread follows the external recorder, whose polls
\* succeed, while the keyboard listener delivers key presses; the
\* threads are scheduled fairly.  The external recorder changes its
\* state right before a poll, the only time the tracker looks at it.
NextEdge ==
    \/ mon.at = "none" /\ ConnectObs("connected")
    \/ mon.at = "L316" /\ ObsToggle
    \/ MonitorStep({TRUE})
    \/ calls < MaxEdgeKeys /\ EventCall("keyboard", "KeyDown")
    \/ KeyboardStep

SpecEdge ==
    /\ Init
    /\ [][NextEdge]_vars
    /\ WF_vars(MonitorStep({TRUE}))
    /\ WF_vars(KeyboardStep)

\* The monitor loop polls the external recorder while the user starts and
\* stops sessions by hand; a call begins when no call is running.
NextMon ==
    \/ \E o \in ConnectOutcomes : mon.at = "none" /\ ConnectObs(o)
    \/ ObsToggle
    \/ Monitor_L313
    \/ Monitor_L315
    \/ \E ok \in BOOLEAN : Len(polled) < MaxPolls /\ Monitor_L316(ok)
    \/ pc["gui"] = "idle" /\ (MonitorCalls => CanOpen) /\ Monitor_L319
    \/ Monitor_L327
    \/ AllIdle /\ mon.at # "L327" /\ CanOpen /\ StartCall("gui")
    \/ AllIdle /\ mon.at # "L327" /\ StopCall("gui")
    \/ \E t \in Controllers : StartStep(t) \/ StopStep(t) \/ LogEventSteps(t)

SpecMon == Init /\ [][NextMon]_vars

\* One controller thread starts and stops a session while the three
\* sources deliver their callbacks, one callback at a time: a callback can
\* arrive before recording is set, or after it has been cleared.
NoCallback == \A t \in Producers : pc[t] = "idle"

NextGuard ==
    \/ files = <<>> /\ StartCall("gui")
    \/ StopCall("gui")
    \/ StartStep("gui")
    \/ StopStep("gui")
    \/ \E t \in Producers : \E ev \in CallbackEvents(t) :
          NoCallback /\ calls < MaxCalls /\ EventCall(t, ev)
    \/ \E p \in MousePositions :
          NoCallback /\ calls < MaxCalls /\ MouseMoveCall("mouse", p[1], p[2])
    \/ MouseMove_L356("mouse")
    \/ MouseMove_L359("mouse")
    \/ MouseMove_L371("mouse")
    \/ \E t \in Producers : Event_L374(t) \/ LogEvent_L348s(t)
    \/ \E t \in Producers \cup {"gui"} : LogEventSteps(t)

SpecGuard == Init /\ [][NextGuard]_vars

\* One session in which the mouse listener receives wheel motions and
\* button clicks one after the other.
NextWheel ==
    \/ AllIdle /\ files = <<>> /\ StartCall("gui")
    \/ AllIdle /\ StopCall("gui")
    \/ \E dy \in WheelDeltas :
          AllIdle /\ calls < MaxCalls /\ WheelMotion("mouse", dy)
    \/ AllIdle /\ calls < MaxCalls /\ EventCall("mouse", "MouseClick")
    \/ Event_L374("mouse")
    \/ LogEvent_L348s("mouse")
    \/ \E t \in {"gui", "mouse"} : LogEventSteps(t)
    \/ StartStep("gui")
    \/ StopStep("gui")

SpecWheel == Init /\ [][NextWheel]_vars

\* The user presses the connection button again and again: each press
\* with the link not connected starts a thread that runs connect_obs,
\* each press with the link connected runs disconnect_obs, while the
\* monitor thread polls an external recorder that stays inactive.
NextConnect ==
    \/ \E c \in ConnectThreads : conn.made < MaxConnects /\ Toggle_L893(c)
    \/ \E c \in ConnectThreads : ConnectStep(c)
    \/ \E k \in conn.extra : Extra_L313(k)
    \/ Toggle_L889
    \/ DisconnectStep
    \/ Monitor_L313
    \/ Monitor_L315
    \/ \E ok \in BOOLEAN : Len(polled) < MaxClosePolls /\ Monitor_L316(ok)
    \/ Monitor_L319

SpecConnect == Init /\ [][NextConnect]_vars

\* ------------------------------------------------------------ properties
Files == 1..Len(files)
IsEvent(r) == r.type \notin {"SessionStart", "SessionEnd"}
Positions(seq, type) == {i \in 1..Len(seq) : seq[i].type = type}
\* The event records of a category among the first n records of a log.
EventsBefore(seq, n, cat) ==
    Cardinality({i \in 1..(n - 1) : cat \in {"any", Category(seq[i].type)}
                                      /\ IsEvent(seq[i])})
\* The lines of log_event.
LogEventLines == {"L336", "L337", "L344", "L345", "L347", "L347s", "L348", "L348s"}
\* Thread t is in start_recording_sync and has opened its log file.
StartHasOpened(t) ==
    /\ loc[t].my # 0
    /\ \/ pc[t] \in {"L425", "L442", "L444", "L445", "L451", "L465", "L467"}
       \/ pc[t] \in LogEventLines /\ loc[t].retpc = "L444"

\* A Start that finds the session Recording returns False and changes
\* nothing.
C1_RejectedStart ==
    \A t \in Controllers :
       (pc[t] = "L415" /\ recording) =>
          /\ pc'[t] = "idle"
          /\ loc'[t].ret = "False"
          /\ UNCHANGED <<session, counters, sources, files>>
\* A log file is opened, and Recording entered, only when not Recording.
C1_EntersFromIdle ==
    /\ Len(files') > Len(files) => ~recording
    /\ (\E t \in Controllers : pc[t] = "L467" /\ pc'[t] = "idle") => ~recording
\* C1: with calls made one after the other, a Start issued while the
\* session is Recording returns False and changes nothing (no file is
\* opened, the counters, the start time, the log path and the sources are
\* as before); a log file is opened, and Recording entered, only from a
\* session that is not Recording.
C1_NoDoubleStart == [][C1_RejectedStart /\ C1_EntersFromIdle]_vars
\* A Start has just been rejected while a session is Recording.
C1_Witness ==
    \E t \in Controllers :
       /\ pc[t] = "idle"
       /\ loc[t].ret = "False"
       /\ recording
       /\ event_count > 0

\* C2: of two Start calls running concurrently, at most one opens a log
\* file and arms listeners: the two controller threads are never both
\* inside start_recording_sync with a log file each has opened.
C2_StartsSerialized ==
    ~(StartHasOpened("gui") /\ StartHasOpened("monitor"))

\* C3: the first record of the log of every session that Start reported
\* successful is the SessionStart record.
C3_MetadataFirst ==
    \A f \in Files :
       files[f].ok => /\ Content(f) # <<>>
                      /\ Content(f)[1].type = "SessionStart"

\* C4: the last record of the closed log of every successful session is
\* the SessionEnd record.
C4_SessionEndLast ==
    \A f \in Files :
       (files[f].ok /\ files[f].closed) =>
          /\ files[f].lines # <<>>
          /\ files[f].lines[Len(files[f].lines)].type = "SessionEnd"

\* C5: the counters a SessionEnd record carries equal the numbers of event
\* records written to the log before it, in total and per category.
C5_CountersMatch ==
    \A f \in Files : \A i \in Positions(Content(f), "SessionEnd") :
       Content(f)[i].det = << EventsBefore(Content(f), i, "any"),
                              EventsBefore(Content(f), i, "mouse"),
                              EventsBefore(Content(f), i, "keyboard"),
                              EventsBefore(Content(f), i, "gamepad") >>

C7_TimestampsMonotonic ==
    \A f \in Files : \A i, j \in 1..Len(Content(f)) :
       i < j => Content(f)[i].ts <= Content(f)[j].ts

\* A Stop that finds the session not Recording returns at once.
C8_IdleStop ==
    \A t \in Controllers :
       (pc[t] = "L476" /\ ~recording) =>
          /\ pc'[t] = "idle"
          /\ UNCHANGED <<session, counters, sources, files>>
\* No log holds two SessionEnd records or was closed twice, and the log of
\* a session that was started and stopped holds one and was closed once.
C8_OneEnd ==
    \A f \in Files :
       /\ Cardinality(Positions(Content(f), "SessionEnd")) <= 1
       /\ files[f].closes <= 1
       /\ (AllIdle /\ ~recording /\ files[f].ok) =>
             /\ Cardinality(Positions(Content(f), "SessionEnd")) = 1
             /\ files[f].closes = 1
\* C8: with calls made one after the other, a Stop issued while the
\* session is not Recording returns at once and writes and closes
\* nothing; once the calls have returned, the log of every session that
\* was started and stopped holds exactly one SessionEnd record and was
\* closed exactly once, however many Stops followed.
C8_StopIdempotent == [](C8_OneEnd) /\ [][C8_IdleStop]_vars
\* A Stop is issued after the session has been stopped.
C8_Witness ==
    \E t \in Controllers : \E f \in Files :
       /\ pc[t] = "L476"
       /\ ~recording
       /\ files[f].ok /\ files[f].closed
       /\ Len(files) = 1

\* C9: two Stop calls running concurrently on a Recording session write
\* exactly one SessionEnd record and close the log file exactly once
\* (stated for runs with a single Start, so that no Start interferes).
C9_StopsCollapse ==
    Len(files) = 1 =>
       /\ Cardinality(Positions(Content(1), "SessionEnd")) <= 1
       /\ files[1].closes <= 1

\* The details of the records on_mouse_move should have written for the
\* positions h, and those of the MouseDelta records of a log.
ExpectedDeltas(h) ==
    LET idx == SelectSeq([i \in 1..Len(h) |-> i],
                         LAMBDA i : i > 1 /\ h[i] # h[i - 1])
    IN [k \in 1..Len(idx) |->
           << h[idx[k]][1] - h[idx[k] - 1][1], h[idx[k]][2] - h[idx[k] - 1][2],
              h[idx[k]][1], h[idx[k]][2] >>]
WrittenDeltas(f) ==
    LET recs == SelectSeq(Content(f), LAMBDA r : r.type = "MouseDelta")
    IN [k \in 1..Len(recs) |-> recs[k].det]
\* C10: once on_mouse_move has returned, the MouseDelta records of a log
\* are exactly one record for each position observed during the session
\* that differs from the position observed before it, carrying the
\* difference (and the position); the first position and a repeated
\* position give no record.
C10_DeltaSuppression ==
    pc["mouse"] = "idle" =>
       \A f \in Files : WrittenDeltas(f) = ExpectedDeltas(observed[f])
\* The positions (0,0),(0,0),(1,0),(1,0),(1,1) were delivered in a session
\* and gave dx=1,dy=0 then dx=0,dy=1.
C10_Witness ==
    \E f \in Files :
       /\ pc["mouse"] = "idle"
       /\ observed[f] = << <<0, 0>>, <<0, 0>>, <<1, 0>>, <<1, 0>>, <<1, 1>> >>
       /\ WrittenDeltas(f) = << <<1, 0, 1, 0>>, <<0, 1, 1, 1>> >>

\* The calls of a kind among the calls the monitor loop has made.
Fired(kind) == Cardinality({i \in 1..Len(fired) : fired[i] = kind})
\* The positions of a sequence of levels at which the level is not the
\* one before it, the level before the first being "off".
Edges(levels, to) ==
    Cardinality({i \in 1..Len(levels) :
                    /\ levels[i] = to
                    /\ (IF i = 1 THEN "off" ELSE levels[i - 1]) # to})
\* The monitor loop is between two iterations.
BetweenPolls == mon.at \in {"L313", "L315", "L316", "done"}
Successful(outcomes) == SelectSeq(outcomes, LAMBDA o : o # "err")
AnyFailed(outcomes) == \E i \in 1..Len(outcomes) : outcomes[i] = "err"

\* C11: when every poll so far has succeeded, the monitor loop has called
\* Start once for each poll that reported "on" after "off" (or first) and
\* Stop once for each poll that reported "off" after "on", whatever the
\* calls returned and however many polls were made.
C11_EdgeDetection ==
    (BetweenPolls /\ ~AnyFailed(polled)) =>
       /\ Fired("start") = Edges(polled, "on")
       /\ Fired("stop") = Edges(polled, "off")
\* The polls reported off, off, on, on, off and gave one Start, rejected
\* because a session started by hand was Recording, and one Stop.
C11_Witness ==
    /\ mon.at = "L313"
    /\ polled = <<"off", "off", "on", "on", "off">>
    /\ fired = <<"start", "stop">>
    /\ Len(files) = 1
    /\ ~recording

\* The step of a poll that fails changes neither last_recording_state
\* nor the calls made, and takes the loop back to its condition.
C12_FailedPollStep ==
    (mon.at = "L316" /\ Len(polled') > Len(polled)
       /\ polled'[Len(polled')] = "err") =>
          /\ mon'.last = mon.last
          /\ mon'.at = "L313"
          /\ UNCHANGED <<fired, pc>>
\* With failed polls among them, the calls made are those of the
\* successful polls alone.
C12_FailedPollsIgnored ==
    (BetweenPolls /\ AnyFailed(polled)) =>
       /\ Fired("start") = Edges(Successful(polled), "on")
       /\ Fired("stop") = Edges(Successful(polled), "off")
\* C12: a poll that raises leaves last_recording_state and the calls made
\* as they were and the loop goes on polling; the Starts and Stops of a
\* run with failed polls are those of its successful polls, so failures
\* between polls reporting the same level trigger nothing.
C12_FailedPollNeutral ==
    [](C12_FailedPollsIgnored) /\ [][C12_FailedPollStep]_vars
\* A poll failed between two polls that reported "on", and one Start was
\* made; the loop has polled again after the failure.
C12_Witness ==
    /\ mon.at = "L313"
    /\ polled = <<"on", "err", "on", "err", "on">>
    /\ fired = <<"start">>
    /\ recording

\* C13: the step of Start at which open raises returns False at once:
\* no file object is made, the session is not Recording, no listener is
\* running and the gamepad thread is not polling when Start has returned.
C13_OpenFailureRollback ==
    [][\A t \in Controllers :
          (pc[t] = "L419" /\ fault = "open") =>
             /\ pc'[t] = "idle"
             /\ loc'[t].ret = "False"
             /\ ~recording'
             /\ running' = {}
             /\ ~tracking'
             /\ files' = files
             /\ log_file' = None]_vars
\* After a first session was recorded and closed, the open of a second
\* Start failed and the Start returned False.
C13_Witness ==
    /\ pc["gui"] = "idle"
    /\ loc["gui"].ret = "False"
    /\ failed = {"open"}
    /\ Len(files) = 1
    /\ files[1].ok /\ files[1].closed
    /\ ~recording

\* C14: when a step of Start fails after the log file was opened (the
\* write of the SessionStart record, the start of a listener), Start
\* returns False with the file it opened closed, self.log_file cleared,
\* no listener running and the session not Recording.
C14_RollbackOnFailure ==
    [][\A t \in Controllers :
          (StartHasOpened(t) /\ failed' # failed) =>
             /\ pc'[t] = "idle"
             /\ loc'[t].ret = "False"
             /\ files'[loc[t].my].closed
             /\ log_file' = None
             /\ running' = {}
             /\ ~recording']_vars

\* The lines of stop_recording after the check of line 476.
StopLines == {"L479", "L482", "L491", "L499", "L502", "L503", "L504"}
\* Thread t is in stop_recording on a session it found Recording.
Stopping(t) ==
    \/ pc[t] \in StopLines
    \/ pc[t] \in LogEventLines /\ loc[t].retpc = "L491"
\* C15: when a Stop that found the session Recording returns, no listener
\* is running, the gamepad thread is not polling, the log of the session
\* is closed, self.log_file is cleared and the session is not Recording,
\* also when the write of the SessionEnd record has raised.
C15_StopAlwaysCloses ==
    [][\A t \in Controllers :
          (Stopping(t) /\ pc'[t] = "idle") =>
             /\ running' = {}
             /\ ~tracking'
             /\ ~recording'
             /\ log_file' = None
             /\ \A f \in Files : files[f].ok => files'[f].closed]_vars

\* C19: a Start that has opened its log and written the SessionStart
\* record returns only with success: when the start of a listener raises
\* or no gamepad is found, it still returns True with the session
\* Recording and the other listener running.
C19_DeviceErrorNotAbort ==
    [][\A t \in Controllers :
          (pc[t] \in {"L451", "L465", "L467"} /\ pc'[t] = "idle") =>
             /\ loc'[t].ret = "True"
             /\ recording'
             /\ \E l \in running' : l[2] = loc[t].my]_vars

\* C20: the step at which the write of an event record raises leaves the
\* source that delivered the event armed and the session Recording.
C20_WriteFailureContained ==
    [][\A t \in Producers :
          (pc[t] = "L344" /\ failed' # failed) =>
             /\ Armed(t)'
             /\ recording']_vars

\* C17: no two log files opened by Starts are at the same path, and no
\* log file is truncated by the open of a later Start.
C17_PathsDistinct ==
    \A f, g \in Files :
       /\ f # g => files[f].path # files[g].path
       /\ ~files[f].truncated

\* The OBS link was never connected and no monitor thread was started.
NeverConnected == ~obs_connected /\ obs_client = None /\ mon.at = "none"
\* The lines of start_recording_sync.
StartLines == {"L415", "L419", "L425", "L442", "L444", "L445", "L451",
               "L465", "L467"}
\* Thread t is in start_recording_sync.
Starting(t) ==
    \/ pc[t] \in StartLines
    \/ pc[t] \in LogEventLines /\ loc[t].retpc = "L444"
\* A Start called from Idle returns True with the session Recording and
\* its log file open.
C18_ManualStartStep ==
    (NeverConnected /\ Starting("gui") /\ pc'["gui"] = "idle"
       /\ ~(pc["gui"] = "L415" /\ recording)) =>
          /\ loc'["gui"].ret = "True"
          /\ recording'
          /\ log_file' # None
          /\ ~files'[log_file'].closed
\* A Stop called on that session returns with the log closed, the
\* SessionEnd record its last line, and the session not Recording.
C18_ManualStopStep ==
    (NeverConnected /\ Stopping("gui") /\ pc'["gui"] = "idle") =>
       /\ ~recording'
       /\ log_file' = None
       /\ files'[log_file].closed
       /\ files'[log_file].lines[Len(files'[log_file].lines)].type
             = "SessionEnd"
\* C18: with the OBS link never connected, manual_start called while no
\* session is Recording returns True with the session Recording and the
\* log file open, and manual_stop then returns with the SessionEnd
\* record written last, the log closed and the session not Recording.
C18_ManualOverride == [][C18_ManualStartStep /\ C18_ManualStopStep]_vars
\* A session was started by hand, took a key press and was stopped by
\* hand, without any OBS link.
C18_Witness ==
    /\ NeverConnected
    /\ AllIdle
    /\ ~recording
    /\ Len(files) = 1
    /\ files[1].ok /\ files[1].closed
    /\ Len(files[1].lines) = 3
    /\ files[1].lines[2].type = "KeyDown"
    /\ files[1].lines[3].type = "SessionEnd"

\* No session is Recording, self.log_file is cleared, every log file is
\* closed and the log of every started session ends with SessionEnd.
Finalized ==
    /\ ~recording
    /\ log_file = None
    /\ \A f \in Files :
          /\ files[f].closed
          /\ files[f].ok =>
                /\ files[f].lines # <<>>
                /\ files[f].lines[Len(files[f].lines)].type = "SessionEnd"
\* C16: after the user has confirmed the closing of the window, the
\* sessions are finalized when disconnect_obs releases the client (line
\* 293, reached from line 933) and when root.destroy() ends the process
\* (line 934): SessionEnd written, log closed, no session Recording.
C16_OrderlyShutdown ==
    ((ui.at = "L933" /\ ui.dis = "L293") \/ ui.at = "L934") => Finalized

\* No session is Recording, no source is armed and no log file is held.
SessionStopped ==
    /\ ~recording
    /\ running = {}
    /\ ~tracking
    /\ log_file = None
\* C21: once MaxCalls record writes in a row have failed (a threshold
\* below MaxCalls is exceeded) and every call has returned, the session
\* is stopped: sources disarmed, log closed, state Idle.
C21_WriteFailureEscalation ==
    (AllIdle /\ misses >= MaxCalls) => SessionStopped

\* C22: a callback that is inside log_event while stop_recording runs is
\* never about to write to or flush a log file that is closed or
\* cleared, and no callback ends by raising.
C22_RaceCleanOrDropped ==
    \A t \in Producers :
       /\ pc[t] \in {"L344", "L345"} =>
             (log_file # None /\ ~files[log_file].closed)
       /\ ~(pc[t] = "idle" /\ loc[t].ret = "raised")

\* The threads that have written a record and not flushed it yet.
Unflushed == {t \in Controllers \cup Producers : pc[t] = "L345"}
\* C30: a log file holds unflushed records only while the log_event
\* calls that wrote them are between their write and their flush: once
\* such a call has returned, its record and all earlier ones are flushed.
C30_FlushedOnReturn ==
    \A f \in Files : Len(files[f].pending) <= Cardinality(Unflushed)
\* Every call has returned, three event records were written after
\* SessionStart and the log, still open, has nothing left to flush.
C30_Witness ==
    /\ AllIdle
    /\ recording
    /\ \E f \in Files :
          /\ ~files[f].closed
          /\ files[f].pending = <<>>
          /\ Len(files[f].lines) = 4
          /\ \A i \in 2..4 : IsEvent(files[f].lines[i])

\* The stick and trigger records of a log, in the order written.
AxisRecords(f) ==
    SelectSeq(Content(f),
              LAMBDA r : r.type \in {"gamepad_stick", "gamepad_trigger"})
\* The readings among rs whose magnitude is above 0.1.
OutsideDeadzone(rs) == SelectSeq(rs, LAMBDA r : Abs(r[2]) > Deadzone)
\* Record rec carries reading r: a stick record under "normalized", a
\* trigger record as the whole number of 1023ths of (value + 1) / 2.
Carries(rec, r) ==
    IF r[1] < 4
    THEN /\ rec.type = "gamepad_stick"
         /\ rec.det[4] = r[2]
    ELSE /\ rec.type = "gamepad_trigger"
         /\ rec.det[2] \in 0..1023
         /\ rec.det[2] * 2000 <= (r[2] + 1000) * 1023
         /\ (r[2] + 1000) * 1023 < (rec.det[2] + 1) * 2000
\* C29: once gamepad_loop has handled the axis readings it received while
\* a session was Recording, the log of the session has no record for a
\* reading of magnitude 0.1 or less and, in order, exactly one record
\* for each reading of greater magnitude, carrying its normalized value.
C29_Deadzone ==
    pc["gamepad"] = "idle" =>
       \A f \in Files :
          LET recs == AxisRecords(f)
              rs == OutsideDeadzone(observed[f])
          IN /\ Len(recs) = Len(rs)
             /\ \A k \in 1..Len(recs) : Carries(recs[k], rs[k])
\* A stick reading of -0.1, a stick reading of 0.101 and a released
\* trigger (-1.0) were received in a session: two records.
C29_Witness ==
    \E f \in Files :
       /\ pc["gamepad"] = "idle"
       /\ observed[f] = << <<3, -100>>, <<3, 101>>, <<4, -1000>> >>
       /\ Len(AxisRecords(f)) = 2
       /\ AxisRecords(f)[1].det = <<"right_stick", "y", 3309, 101>>
       /\ AxisRecords(f)[2].det = <<"left_trigger", 0>>

\* C23: the step at which connect_obs returns False (obs.ReqClient or
\* get_version raised) leaves obs_connected false and starts no monitor
\* thread: the monitor thread and should_monitor are as they were.
C23_ConnectFailure ==
    [][(connect_ret' = "False" /\ connect_ret # "False") =>
          /\ ~obs_connected'
          /\ mon' = mon
          /\ should_monitor' = should_monitor]_vars
\* After a connection that was polled and disconnected, get_version
\* raised on a newly made client: connect_obs returned False, the link is
\* unconnected and the monitor thread of the first connection has ended.
C23_Witness ==
    /\ connect_ret = "False"
    /\ obs_client # None
    /\ ~obs_connected
    /\ polled # <<>>
    /\ mon.at = "done"

\* C24: whenever connect_obs has returned True, the link is connected and
\* no disconnect_obs is running, a monitor thread is alive.
C24_ConnectedIsPolled ==
    (connect_ret = "True" /\ obs_connected /\ ui.dis = "none") => MonitorAlive

\* C25: disconnect_obs releases the client only after it has cleared
\* should_monitor and its join has returned, and once it has cleared
\* should_monitor, with no Connect after it, the monitor thread ends and
\* the link ends unconnected with the client released.
C25_DisconnectEndsLoop ==
    /\ [][(obs_client # None /\ obs_client' = None) =>
             (~should_monitor /\ ui.dis = "L293")]_vars
    /\ (ui.dis = "L290") ~>
          (~MonitorAlive /\ ~obs_connected /\ obs_client = None)
\* The join of disconnect_obs timed out: the client is released while
\* the monitor thread, told to end, is still in a session call.
C25_Witness ==
    /\ ui.dis = "L300"
    /\ obs_client = None
    /\ ~should_monitor
    /\ MonitorAlive
    /\ pc["monitor"] # "idle"

\* A successful poll has just reported the external recorder inactive
\* after active, with the session Recording and the link connected.
FallingEdge ==
    /\ mon.at = "L319"
    /\ mon.last /\ ~mon.is
    /\ recording
    /\ obs_connected
\* Every log file of a started session holds SessionEnd and is closed.
LogsFinalized ==
    \A f \in Files :
       /\ files[f].closed
       /\ files[f].ok => Positions(files[f].lines, "SessionEnd") # {}
\* C26: a falling edge of the external recorder seen by a successful poll
\* while the session is Recording and the link is connected leads to
\* Idle, the sources disarmed and the log finalized and closed.
C26_FallingEdgeStops ==
    FallingEdge ~> (SessionStopped /\ LogsFinalized)
\* The monitor loop started a session and stopped it on the falling
\* edge; a key press was logged in between.
C26_Witness ==
    /\ fired = <<"start", "stop">>
    /\ pc["monitor"] = "idle"
    /\ SessionStopped
    /\ LogsFinalized
    /\ Len(files) = 1
    /\ Positions(files[1].lines, "KeyDown") # {}

\* No thread is in start_recording, stop_recording or cleanup_recording
\* of the subprocess-driven recorder.
V0Quiescent ==
    /\ v0.pc["tk"] = "idle"
    /\ v0.pc["worker"] = "idle"
    /\ v0.pc["keyboard"] \in {"idle", "L144", "L152", "L157"}
\* The recorder holds an encoder process that runs; its log file is open.
V0Held ==
    /\ v0.ffmpeg_process # None
    /\ v0.procs[v0.ffmpeg_process] = "running"
V0LogOpen ==
    /\ v0.log_file # None
    /\ ~v0.logs[v0.log_file].closed
\* C27: while no thread is in start_recording or stop_recording, the
\* subprocess-driven recorder holds a running encoder exactly when its
\* log file is open, and exactly when recording is true.
C27_EncoderBracketsLog ==
    V0Quiescent =>
       /\ V0Held <=> v0.recording
       /\ V0LogOpen <=> v0.recording

\* An F10 release has been delivered with recording true.
V0F10Delivered ==
    /\ v0.pc["keyboard"] = "L152"
    /\ v0.key = "f10"
\* on_key_release has returned; the KeyUp record of F10 is the last line
\* of the log of the session, the log is closed, the encoder of the
\* session has exited, no listener runs and recording is false.
V0F10Stopped ==
    /\ v0.pc["keyboard"] = "idle"
    /\ v0.f10 # <<>>
    /\ LET log == v0.logs[v0.f10[1]]
       IN /\ log.closed
          /\ log.lines # <<>>
          /\ log.lines[Len(log.lines)] = [type |-> "KeyUp", key |-> "f10"]
    /\ v0.procs[v0.f10[2]] = "exited"
    /\ v0.listening = {}
    /\ ~v0.recording
    /\ v0.ffmpeg_process = None
    /\ v0.log_file = None
\* C28: an F10 release delivered while recording is true leads to its
\* KeyUp record logged and the recording ended: encoder stopped, log
\* closed, both listeners stopped.
C28_F10Stops == V0F10Delivered ~> V0F10Stopped
\* F10 was released after another key in a recording: the log holds both
\* KeyUp records and the recording has ended.
C28_Witness ==
    /\ V0F10Stopped
    /\ v0.logs[v0.f10[1]].lines =
          << [type |-> "KeyUp", key |-> "a"],
             [type |-> "KeyUp", key |-> "f10"] >>

\* C31: an event handler of the mouse, the keyboard or the gamepad that
\* finds recording false at its first line returns at once: it writes no
\* record and leaves the log file, the four counters and last_mouse_pos
\* as they were.
GuardLines == {"L356", "L374"}

C31_GuardStep ==
    \A t \in Producers :
       (pc[t] \in GuardLines /\ pc'[t] # pc[t] /\ ~recording)
          => /\ pc'[t] = "idle"
             /\ UNCHANGED <<files, wseq, log_file, counters, last_mouse_pos>>

C31_NoOpWhenNotRecording == [][C31_GuardStep]_vars

\* Each source has had a callback return while recording was false and the
\* log file was open, and nothing was recorded or counted.
C31_Witness ==
    /\ ~recording
    /\ log_file # None
    /\ ~files[log_file].closed
    /\ calls = MaxCalls
    /\ \A t \in Producers : pc[t] = "idle" /\ loc[t].ret = "None"
    /\ \A f \in Files : \A i \in 1..Len(Content(f)) : ~IsEvent(Content(f)[i])
    /\ event_count = 0
    /\ last_mouse_pos = NoPos

\* C32: every wheel motion with a non-zero delta received while a session
\* is Recording has exactly one MouseWheel record with that delta in the
\* session's log, and a zero delta has none.
WheelTypes == {"MouseWheel", "mouse_wheel"}

WheelRecords(f) ==
    SelectSeq(Content(f), LAMBDA r : r.type \in WheelTypes)

NonZeroWheel(h) == SelectSeq(h, LAMBDA m : m[2] # 0)

C32_WheelRecorded ==
    AllIdle =>
       \A f \in Files :
          /\ Len(WheelRecords(f)) = Len(NonZeroWheel(observed[f]))
          /\ \A i \in 1..Len(WheelRecords(f)) :
                WheelRecords(f)[i].det = <<NonZeroWheel(observed[f])[i][2]>>

\* C33: whenever the session is Recording and no call of Start or Stop is
\* in progress, self.log_file is set and the file is not closed, however
\* a Stop on one thread interleaves with a Start on another.
C33_RecordingHasOpenLog ==
    (recording /\ \A t \in Controllers : pc[t] = "idle")
       => (log_file # None /\ ~files[log_file].closed)

\* C34: every record of a session's log was written after the session's
\* SessionStart record and carries a timestamp computed from the start
\* time of that session, also when a callback that passed its recording
\* check in the session before is still running while the next Start
\* opens its file.
C34_NoLateRecords ==
    \A f \in Files : \A i \in 1..Len(Content(f)) :
       /\ Content(f)[1].type = "SessionStart"
       /\ Content(f)[i].base = files[f].start

\* disconnect_obs has returned and no connect_obs has succeeded since.
Disconnected == ~should_monitor /\ ui.dis = "none" /\ ~obs_connected

\* C35: once disconnect_obs has returned, and until a new Connect
\* succeeds, the monitor loop calls neither start_recording_sync nor
\* stop_recording.
C35_NoCallAfterDisconnect == [][Disconnected => fired' = fired]_vars

\* C36: at most one poll-loop thread is alive at any time, however the
\* Connect and Disconnect requests interleave.
C36_OneMonitorThread == Cardinality(AliveLoops) <= 1

\* C37: every poll loop begins with last_recording_state False; when the
\* first successful poll of a loop finds the external recorder active, the
\* loop calls start_recording_sync, once, and at no other line; the call
\* goes on to open a log when the session is Idle and returns False,
\* changing nothing, when a session is Recording.
C37_LoopBegins ==
    (~MonitorAlive /\ MonitorAlive') => (~mon'.last /\ mon'.polls = 0)

C37_FirstPollCalls ==
    (mon.at = "L319" /\ mon.polls = 1 /\ mon.is /\ mon' # mon)
       => /\ fired' = Append(fired, "start")
          /\ pc'["monitor"] = "L415"
          /\ mon'.at = "L327"

C37_CallsOnlyThere ==
    (fired' # fired) => (mon.at = "L319" /\ Len(fired') = Len(fired) + 1)

C37_CallOutcome ==
    (pc["monitor"] = "L415" /\ pc'["monitor"] # "L415")
       => IF recording
          THEN /\ pc'["monitor"] = "idle"
               /\ loc'["monitor"].ret = "False"
               /\ UNCHANGED <<session, files, counters, sources>>
          ELSE pc'["monitor"] = "L419"

C37_FirstPollRisingEdge ==
    [][/\ C37_LoopBegins
       /\ C37_FirstPollCalls
       /\ C37_CallsOnlyThere
       /\ C37_CallOutcome]_vars

\* The external recorder was active all along.  The first loop's first
\* poll started a session; after a Disconnect and a new Connect the second
\* loop's first poll called Start again, which was rejected.
C37_Witness ==
    /\ polled = <<"on", "on">>
    /\ fired = <<"start", "start">>
    /\ mon.at = "L313"
    /\ mon.polls = 1
    /\ mon.last
    /\ recording
    /\ Len(files) = 1
    /\ pc["monitor"] = "idle"
    /\ loc["monitor"].ret = "False"

\* C38: in every SessionEnd record total_events equals the sum of
\* mouse_events, keyboard_events and gamepad_events.
C38_TotalIsSum ==
    \A f \in Files : \A i \in Positions(Content(f), "SessionEnd") :
       Content(f)[i].det[1] =
          Content(f)[i].det[2] + Content(f)[i].det[3] + Content(f)[i].det[4]

\* The sum of the k-th components of the tuples of a sequence.
RECURSIVE SumOf(_, _)
SumOf(seq, k) ==
    IF seq = <<>> THEN 0 ELSE Head(seq)[k] + SumOf(Tail(seq), k)

\* C39: once on_mouse_move has returned, the dx values and the dy values
\* of the MouseDelta records of a session's log add up to the difference
\* between the last and the first position delivered in that session; a
\* session with no position delivered has no MouseDelta record.
C39_DeltasTelescope ==
    pc["mouse"] = "idle" =>
       \A f \in Files :
          LET h == observed[f]
              d == WrittenDeltas(f)
          IN IF h = <<>> THEN d = <<>>
             ELSE /\ SumOf(d, 1) = h[Len(h)][1] - h[1][1]
                  /\ SumOf(d, 2) = h[Len(h)][2] - h[1][2]

\* The first session saw (0,0),(1,1); the second saw (1,0),(1,1),(0,0) and
\* logged dx=0,dy=1 and dx=-1,dy=-1: nothing was computed against the
\* (1,1) the first session had left.
C39_Witness ==
    /\ pc["mouse"] = "idle"
    /\ Len(files) = 2
    /\ observed[1] = << <<0, 0>>, <<1, 1>> >>
    /\ observed[2] = << <<1, 0>>, <<1, 1>>, <<0, 0>> >>
    /\ WrittenDeltas(2) = << <<0, 1, 1, 1>>, <<-1, -1, 0, 0>> >>

====
